---- MODULE Spec2Model ----
(***************************************************************************)
(* The history-snapshot / trend pipeline of shikiho-getter.                *)
(*                                                                         *)
(*   output/history/<YYYY-MM-DD>.json   one JSON array of records per day  *)
(*   src/services/historyPrice.ts       resolver, point lookup, series     *)
(*   src/scripts/fetch-daily-history.ts the daily snapshot job             *)
(*   src/services/trendAnalyzer.ts      pairwise trend classifier          *)
(*                                                                         *)
(* A date string "2025-01-dd" is written as its day dd; a caller's date    *)
(* argument keeps its two separators so that normalizeDateInput has        *)
(* something to do.  JSON scalars are opaque strings ("p1", "null").       *)
(***************************************************************************)
EXTENDS Integers, Sequences, FiniteSets, TLC

\* ------------------------------------------------------------- bounds
MaxDay == 3        \* snapshot dates 2025-01-01 .. 2025-01-0<MaxDay>
MaxPoints == 2     \* largest explicit `points` argument
MaxList == 2       \* longest stock-code list of the daily job
MaxPeriod == 4     \* fiscal periods in a company's performance table

Days == 1..MaxDay
Codes == {"7203", "6758"}

\* `new Date().toISOString().slice(0, 10)`: the run's calendar date.
Today == 2

Null == "null"
Undef == "undefined"

\* ------------------------------------------------------------ helpers
Min(a, b) == IF a <= b THEN a ELSE b

\* a ?? b
Coalesce(a, b) == IF a \in {Null, Undef} THEN b ELSE a

\* rec?.key, for a possibly missing record (<<>>) or key
Get(rec, key) == IF key \in DOMAIN rec THEN rec[key] ELSE Undef

\* Array.prototype.sort() on date names: ascending
RECURSIVE SortedSeq(_)
SortedSeq(S) ==
  IF S = {} THEN <<>>
  ELSE LET m == CHOOSE x \in S : \A y \in S : x <= y
       IN <<m>> \o SortedSeq(S \ {m})

\* Array.prototype.slice(n), the sign left out: all but the first n elements
SliceFrom(s, n) == IF n >= Len(s) THEN <<>> ELSE SubSeq(s, n + 1, Len(s))

\* Array.prototype.slice(-n): the last n elements; slice(-0) is slice(0)
SliceLast(s, n) ==
  IF n = 0 \/ n >= Len(s) THEN s
  ELSE SubSeq(s, Len(s) - n + 1, Len(s))

Range(s) == {s[i] : i \in 1..Len(s)}

\* -------------------------------------------------- date arguments
\* A date argument: undefined, "", or the text "2025" s1 "01" s2 dd, where
\* dd = 0 stands for a day field that is not two digits.
Seps == {"-", "/"}
ArgUndefined == [kind |-> "undefined", s1 |-> "-", s2 |-> "-", dd |-> 0]
ArgEmpty == [kind |-> "empty", s1 |-> "-", s2 |-> "-", dd |-> 0]
Text(a, b, d) == [kind |-> "text", s1 |-> a, s2 |-> b, dd |-> d]
Dash(d) == Text("-", "-", d)
Slash(d) == Text("/", "/", d)

\* /^\d{4}\/\d{2}\/\d{2}$/.test(date)
SlashMatch(date) == date.s1 = "/" /\ date.s2 = "/" /\ date.dd \in Days
\* date.replace('/', '-'): the first slash only
ReplaceFirstSlash(date) == [date EXCEPT !.s1 = IF @ = "/" THEN "-" ELSE @]

\* date.replace(/\//g, '-')
ReplaceSlashes(date) ==
  [date EXCEPT !.s1 = IF @ = "/" THEN "-" ELSE @,
               !.s2 = IF @ = "/" THEN "-" ELSE @]
\* /^\d{4}-\d{2}-\d{2}$/.test(normalized)
DashMatch(date) == date.s1 = "-" /\ date.s2 = "-" /\ date.dd \in Days

\* normalizeDateInput: [ok, day]; ok = FALSE is the thrown "Invalid date format"
normalizeDateInput(date) ==
  IF date.kind \in {"undefined", "empty"} THEN [ok |-> TRUE, day |-> Today]
  ELSE LET normalized == IF SlashMatch(date) THEN ReplaceSlashes(date) ELSE date
       IN IF ~DashMatch(normalized) THEN [ok |-> FALSE, day |-> 0]
          ELSE [ok |-> TRUE, day |-> normalized.dd]

\* ------------------------------------------------ the remote quote API
\* GET <API_URL>/<code>/latest: the fields of the response the pipeline reads.
\* `self` is the entry of data.rivals whose stock_code is the requested code.
Listed == [shikiho_name |-> "n1", self_name_j |-> "n1", self_name_j9c |-> Undef,
           self_price |-> "p1", stock_price |-> "p1", ratio |-> "r1"]
\* a response without rivals, price or ratio (a malformed / empty body)
Bare == [shikiho_name |-> Undef, self_name_j |-> Undef, self_name_j9c |-> Undef,
         self_price |-> Undef, stock_price |-> Undef, ratio |-> Undef]
Responses == {Listed, Bare}
\* what axios.get does: resolve with a response, or reject
Rejected == [ok |-> FALSE, data |-> Bare]
Outcomes == {[ok |-> TRUE, data |-> r] : r \in Responses} \cup {Rejected}

\* the outcome of the k-th request of one call, under plan p
OutcomeAt(p, k) == p[Min(k, Len(p))]

DateText(d) == ToString(d)

\* the record fetchLatestStockSnapshot builds from a response
fetchLatestStockSnapshot(stockCode, data) ==
  [stock_code |-> stockCode,
   company_name |-> Coalesce(data.self_name_j, data.self_name_j9c),
   ratio_of_price_to_200days_ma |-> Coalesce(data.ratio, Null),
   current_price |-> Coalesce(Coalesce(data.self_price, data.stock_price), Null),
   fetched_at |-> DateText(Today),
   snapshotted_at |-> "ts"]

\* the assignment to fetched_at left out: the record keeps the run's date
StampNot(snapshot, d) == snapshot

\* snapshot.fetched_at = date
Stamp(snapshot, d) == [snapshot EXCEPT !.fetched_at = DateText(d)]

\* record?.stock_price ?? null: the key of the API body, not of the record
PriceOfApiKey(rec) == Coalesce(Get(rec, "stock_price"), Null)

\* record?.current_price ?? null
PriceOf(rec) == Coalesce(Get(rec, "current_price"), Null)
RatioOf(rec) == Coalesce(Get(rec, "ratio_of_price_to_200days_ma"), Null)

\* ------------------------------------------------------ snapshot store
\* A store st = [dir, junk, files]: whether output/history exists, whether it
\* holds an entry whose name is not YYYY-MM-DD.json, and each date's file.
FileAbsent == [kind |-> "absent", recs |-> <<>>]
FileBad == [kind |-> "bad", recs |-> <<>>]       \* does not parse as JSON
FileArray(recs) == [kind |-> "array", recs |-> recs]

\* JSON.stringify of one record: keys whose value is undefined are dropped
Stringify(rec) == [k \in {x \in DOMAIN rec : rec[x] # Undef} |-> rec[k]]
StringifyAll(recs) == [i \in 1..Len(recs) |-> Stringify(recs[i])]

\* { ...new, ...old }: the stored record wins
MergeOldWins(old, new) ==
  [k \in DOMAIN old \cup DOMAIN new |-> IF k \in DOMAIN old THEN old[k] ELSE new[k]]

\* { ...old, ...new }
Merge(old, new) ==
  [k \in DOMAIN old \cup DOMAIN new |-> IF k \in DOMAIN new THEN new[k] ELSE old[k]]

\* records.findIndex(r => String(r.stock_code) === String(code)); 0 for -1
findIndex(records, code) ==
  LET I == {i \in 1..Len(records) : records[i].stock_code = code}
  IN IF I = {} THEN 0 ELSE CHOOSE i \in I : \A j \in I : i <= j

\* records.find(...): the record, or <<>> for undefined
find(records, code) ==
  IF findIndex(records, code) = 0 THEN <<>> ELSE records[findIndex(records, code)]

readHistoryFile(st, d) ==
  IF st.files[d].kind = "array" THEN st.files[d].recs ELSE <<>>

\* fs.writeFile(path, JSON.stringify(records))
writeFile(st, d, records) ==
  [st EXCEPT !.files[d] = FileArray(StringifyAll(records))]

\* records.unshift(record) in place of records.push(record)
upsertAtFront(st, d, record) ==
  LET records == readHistoryFile(st, d)
      idx == findIndex(records, record.stock_code)
      next == IF idx > 0 THEN [records EXCEPT ![idx] = Merge(@, record)]
              ELSE <<record>> \o records
  IN writeFile(st, d, next)

upsertHistoryRecord(st, d, record) ==
  LET records == readHistoryFile(st, d)
      idx == findIndex(records, record.stock_code)
      next == IF idx > 0 THEN [records EXCEPT ![idx] = Merge(@, record)]
              ELSE Append(records, record)
  IN writeFile(st, d, next)

\* lines 74-80 run on a fresh read of the file instead of `records`
upsertFromFresh(st, d, records, record) == upsertHistoryRecord(st, d, record)

\* upsertHistoryRecord after its first await: `records` is what the read
\* returned, the file is written from it
upsertFrom(st, d, records, record) ==
  LET idx == findIndex(records, record.stock_code)
      next == IF idx > 0 THEN [records EXCEPT ![idx] = Merge(@, record)]
              ELSE Append(records, record)
  IN writeFile(st, d, next)

\* fs.mkdir(dir, { recursive: true })
ensureDirExists(st) == [st EXCEPT !.dir = TRUE]

\* directory entries: [day, dated]; dated = FALSE is a name that is not
\* YYYY-MM-DD.json (it sorts before every date name)
JunkName == [day |-> 0, dated |-> FALSE]
Entries(st) ==
  {[day |-> d, dated |-> TRUE] : d \in {x \in Days : st.files[x].kind # "absent"}}
    \cup (IF st.junk THEN {JunkName} ELSE {})

\* listHistoryFiles: [ok, names]; ok = FALSE is "History directory not found"
listHistoryFiles(st) ==
  IF ~st.dir THEN [ok |-> FALSE, names |-> <<>>]
  ELSE [ok |-> TRUE,
        names |-> SortedSeq({e.day : e \in {x \in Entries(st) : x.dated}})]

\* ------------------------------------------------------------- errors
\* msg, the date the message names (0: none), whether it names the directory
Err(msg, date, dir) == [msg |-> msg, date |-> date, dir |-> dir]
NoErr == Err("", 0, FALSE)
InvalidDate == Err("Invalid date format", 0, FALSE)
DirNotFound == Err("History directory not found", 0, TRUE)
NoHistory(d) == Err("No history file found on or before", d, TRUE)
SyntaxErr == Err("SyntaxError", 0, FALSE)
FetchErr == Err("AxiosError", 0, FALSE)

Ev(kind, day) == [ev |-> kind, day |-> day]

\* ------------------------------------------------------- date resolver
Resolved(req, res) == [requestedDate |-> req, resolvedDate |-> res]
NoResolved == Resolved(0, 0)

\* the newest snapshot file, whatever the requested date
resolveNewest(st, date) ==
  LET n == normalizeDateInput(date)
      listed == listHistoryFiles(st)
  IN IF ~n.ok
       THEN [status |-> "throw", error |-> InvalidDate, resolved |-> NoResolved,
             log |-> <<>>]
     ELSE IF ~listed.ok
       THEN [status |-> "throw", error |-> DirNotFound, resolved |-> NoResolved,
             log |-> <<Ev("readdir", 0)>>]
     ELSE IF Len(listed.names) = 0
       THEN [status |-> "throw", error |-> NoHistory(n.day), resolved |-> NoResolved,
             log |-> <<Ev("readdir", 0)>>]
     ELSE [status |-> "ok", error |-> NoErr,
           resolved |-> Resolved(n.day, listed.names[Len(listed.names)]),
           log |-> <<Ev("readdir", 0)>>]

\* candidates[0] in place of the last candidate
resolveEarliest(st, date) ==
  LET n == normalizeDateInput(date)
      requestedDate == n.day
      listed == listHistoryFiles(st)
      candidates == SelectSeq(listed.names, LAMBDA d : d <= requestedDate)
  IN IF ~n.ok
       THEN [status |-> "throw", error |-> InvalidDate, resolved |-> NoResolved,
             log |-> <<>>]
     ELSE IF st.dir /\ st.files[requestedDate].kind # "absent"
       THEN [status |-> "ok", error |-> NoErr,
             resolved |-> Resolved(requestedDate, requestedDate),
             log |-> <<Ev("access", requestedDate)>>]
     ELSE IF ~listed.ok
       THEN [status |-> "throw", error |-> DirNotFound, resolved |-> NoResolved,
             log |-> <<Ev("access", requestedDate), Ev("readdir", 0)>>]
     ELSE IF Len(candidates) = 0
       THEN [status |-> "throw", error |-> NoHistory(requestedDate),
             resolved |-> NoResolved,
             log |-> <<Ev("access", requestedDate), Ev("readdir", 0)>>]
     ELSE [status |-> "ok", error |-> NoErr,
           resolved |-> Resolved(requestedDate, candidates[1]),
           log |-> <<Ev("access", requestedDate), Ev("readdir", 0)>>]

\* [status, error, resolved, log]
resolveHistoryFileForDate(st, date) ==
  LET n == normalizeDateInput(date)
      requestedDate == n.day
      listed == listHistoryFiles(st)
      candidates == SelectSeq(listed.names, LAMBDA d : d <= requestedDate)
  IN IF ~n.ok
       THEN [status |-> "throw", error |-> InvalidDate, resolved |-> NoResolved,
             log |-> <<>>]
     ELSE IF st.dir /\ st.files[requestedDate].kind # "absent"
       THEN [status |-> "ok", error |-> NoErr,
             resolved |-> Resolved(requestedDate, requestedDate),
             log |-> <<Ev("access", requestedDate)>>]
     ELSE IF ~listed.ok
       THEN [status |-> "throw", error |-> DirNotFound, resolved |-> NoResolved,
             log |-> <<Ev("access", requestedDate), Ev("readdir", 0)>>]
     ELSE IF Len(candidates) = 0
       THEN [status |-> "throw", error |-> NoHistory(requestedDate),
             resolved |-> NoResolved,
             log |-> <<Ev("access", requestedDate), Ev("readdir", 0)>>]
     ELSE [status |-> "ok", error |-> NoErr,
           resolved |-> Resolved(requestedDate, candidates[Len(candidates)]),
           log |-> <<Ev("access", requestedDate), Ev("readdir", 0)>>]

\* the records of the newest file, whatever the requested date
loadNewestRecords(st, date) ==
  LET r == resolveNewest(st, date)
      d == r.resolved.resolvedDate
  IN IF r.status = "throw"
       THEN [status |-> "throw", error |-> r.error, resolved |-> NoResolved,
             records |-> <<>>, log |-> r.log]
     ELSE IF st.files[d].kind = "bad"
       THEN [status |-> "throw", error |-> SyntaxErr, resolved |-> NoResolved,
             records |-> <<>>, log |-> Append(r.log, Ev("read", d))]
     ELSE [status |-> "ok", error |-> NoErr, resolved |-> r.resolved,
           records |-> st.files[d].recs, log |-> Append(r.log, Ev("read", d))]

\* [status, error, resolved, records, log]; JSON.parse throws on a bad file
loadHistoryRecordsForDate(st, date) ==
  LET r == resolveHistoryFileForDate(st, date)
      d == r.resolved.resolvedDate
  IN IF r.status = "throw"
       THEN [status |-> "throw", error |-> r.error, resolved |-> NoResolved,
             records |-> <<>>, log |-> r.log]
     ELSE IF st.files[d].kind = "bad"
       THEN [status |-> "throw", error |-> SyntaxErr, resolved |-> NoResolved,
             records |-> <<>>, log |-> Append(r.log, Ev("read", d))]
     ELSE [status |-> "ok", error |-> NoErr, resolved |-> r.resolved,
           records |-> st.files[d].recs, log |-> Append(r.log, Ev("read", d))]

\* ------------------------------------------------------- point lookup
\* getStockPriceAtDate(stockCode, date, { backfillIfMissing }), the remote API
\* answering by `plan`: [status, error, resolved, price, st, log]
getStockPriceAtDate(st, stockCode, date, backfillIfMissing, plan) ==
  LET n == normalizeDateInput(date)
      requestedDate == n.day
      requestedRecord == find(readHistoryFile(st, requestedDate), stockCode)
      requestedPrice == PriceOf(requestedRecord)
      log1 == <<Ev("read", requestedDate)>>
      out == OutcomeAt(plan, 1)
      st1 == ensureDirExists(st)
      snapshot == Stamp(fetchLatestStockSnapshot(stockCode, out.data), requestedDate)
      loaded == loadHistoryRecordsForDate(st, Dash(requestedDate))
  IN IF ~n.ok
       THEN [status |-> "throw", error |-> InvalidDate, resolved |-> NoResolved,
             price |-> Null, st |-> st, log |-> <<>>]
     ELSE IF requestedPrice # Null
       THEN [status |-> "ok", error |-> NoErr,
             resolved |-> Resolved(requestedDate, requestedDate),
             price |-> requestedPrice, st |-> st, log |-> log1]
     ELSE IF backfillIfMissing
       THEN IF ~out.ok
              THEN [status |-> "throw", error |-> FetchErr, resolved |-> NoResolved,
                    price |-> Null, st |-> st1,
                    log |-> log1 \o <<Ev("mkdir", 0), Ev("fetch", requestedDate)>>]
            ELSE [status |-> "ok", error |-> NoErr,
                  resolved |-> Resolved(requestedDate, requestedDate),
                  price |-> PriceOf(snapshot),
                  st |-> upsertHistoryRecord(st1, requestedDate, snapshot),
                  log |-> log1 \o <<Ev("mkdir", 0), Ev("fetch", requestedDate),
                                   Ev("read", requestedDate),
                                   Ev("write", requestedDate)>>]
     ELSE IF loaded.status = "throw"
       THEN [status |-> "throw", error |-> loaded.error, resolved |-> NoResolved,
             price |-> Null, st |-> st, log |-> log1 \o loaded.log]
     ELSE [status |-> "ok", error |-> NoErr, resolved |-> loaded.resolved,
           price |-> PriceOf(find(loaded.records, stockCode)), st |-> st,
           log |-> log1 \o loaded.log]

\* ------------------------------------------------------ series builder
\* options?.points ?? 60, with `points` given as {} (undefined) or {n}
DefaultPoints == 60
PointsOr(points) == IF points = {} THEN DefaultPoints ELSE CHOOSE n \in points : TRUE

Point(date, rec) == [date |-> date, price |-> PriceOf(rec), ratio |-> RatioOf(rec)]

\* the point made from the stored record even after a backfill
PushedStale(record, snapshot, missing) == record

\* the record a point is made from: `record = snapshot` after a backfill
Pushed(record, snapshot, missing) == IF missing THEN snapshot ELSE record

\* the `for (const date of selectedDates)` loop from position i on;
\* acc = [status, error, series, st, log, nfetch]
RECURSIVE SeriesLoop(_, _, _, _, _, _)
SeriesLoop(acc, selectedDates, i, stockCode, backfill, plan) ==
  IF i > Len(selectedDates) THEN acc
  ELSE
    LET date == selectedDates[i]
        record == find(readHistoryFile(acc.st, date), stockCode)
        missing == PriceOf(record) = Null /\ backfill
        out == OutcomeAt(plan, acc.nfetch + 1)
        snapshot == Stamp(fetchLatestStockSnapshot(stockCode, out.data), date)
    IN IF ~missing
         THEN SeriesLoop([acc EXCEPT !.series = Append(@, Point(date, Pushed(record, snapshot, FALSE))),
                                     !.log = Append(@, Ev("read", date))],
                         selectedDates, i + 1, stockCode, backfill, plan)
       ELSE IF ~out.ok
         THEN [acc EXCEPT !.status = "throw", !.error = FetchErr,
                          !.series = <<>>, !.nfetch = @ + 1,
                          !.log = @ \o <<Ev("read", date), Ev("fetch", date)>>]
       ELSE SeriesLoop([acc EXCEPT
                          !.series = Append(@, Point(date, Pushed(record, snapshot, TRUE))),
                          !.st = upsertHistoryRecord(@, date, snapshot),
                          !.nfetch = @ + 1,
                          !.log = @ \o <<Ev("read", date), Ev("fetch", date),
                                         Ev("read", date), Ev("write", date)>>],
                       selectedDates, i + 1, stockCode, backfill, plan)

\* getStockPriceSeries(stockCode, { endDate, points, backfillMissingPrices }):
\* [status, error, series, st, log, nfetch]
getStockPriceSeries(st, stockCode, endDateArg, pointsArg, backfill, plan) ==
  LET n == normalizeDateInput(endDateArg)
      endDate == n.day
      points == PointsOr(pointsArg)
      listed == listHistoryFiles(st)
      dates == SelectSeq(listed.names, LAMBDA d : d <= endDate)
      synth == backfill /\ endDate \notin Range(dates)
      out == OutcomeAt(plan, 1)
      snapshot == Stamp(fetchLatestStockSnapshot(stockCode, out.data), endDate)
      start == [status |-> "ok", error |-> NoErr, series |-> <<>>, st |-> st,
                log |-> <<Ev("readdir", 0)>>, nfetch |-> 0]
      synthesized ==
        [start EXCEPT !.st = upsertHistoryRecord(ensureDirExists(st), endDate, snapshot),
                      !.nfetch = 1,
                      !.log = @ \o <<Ev("mkdir", 0), Ev("fetch", endDate),
                                     Ev("read", endDate), Ev("write", endDate)>>]
      dates2 == IF synth THEN SortedSeq(Range(dates) \cup {endDate}) ELSE dates
      selectedDates == SliceLast(dates2, points)
  IN IF ~n.ok
       THEN [start EXCEPT !.status = "throw", !.error = InvalidDate, !.log = <<>>]
     ELSE IF ~listed.ok
       THEN [start EXCEPT !.status = "throw", !.error = DirNotFound]
     ELSE IF synth /\ ~out.ok
       THEN [start EXCEPT !.status = "throw", !.error = FetchErr, !.nfetch = 1,
                          !.log = @ \o <<Ev("mkdir", 0), Ev("fetch", endDate)>>]
     ELSE SeriesLoop(IF synth THEN synthesized ELSE start,
                     selectedDates, 1, stockCode, backfill, plan)

\* ------------------------------------------------ get-history-price driver
\* Number(text) for the texts given to --points
Finite(n) == [kind |-> "finite", n |-> n]
NaN == [kind |-> "nan"]
Infinity == [kind |-> "infinity"]

Number(text) ==
  CASE text \in {"", "0"} -> Finite(0)
    [] text = "-1" -> Finite(-1)
    [] text = "1" -> Finite(1)
    [] text = "2" -> Finite(2)
    [] text = "Infinity" -> Infinity
    [] OTHER -> NaN

\* a string in a condition: every string but the empty one is truthy
Truthy(text) == text # ""

\* Number.isFinite(points)
isFinite(points) == points.kind = "finite"

\* argv after getArgValue and hasFlag: code and points are {} when the
\* option is not given, {text} when it is
Argv(code, points, date, endDate, noBackfill) ==
  [code |-> code, points |-> points, date |-> date, endDate |-> endDate,
   noBackfill |-> noBackfill]

Exit(exitCode, called, st) == [exitCode |-> exitCode, called |-> called, st |-> st]

\* main, with main().catch and usageAndExit: the exit code of the process,
\* the service functions called and the store left
driverMain(st, argv, plan) ==
  LET pointsRaw == IF argv.points = {} THEN "" ELSE CHOOSE t \in argv.points : TRUE
      given == argv.points # {} /\ Truthy(pointsRaw)
      points == Number(pointsRaw)
      stockCode == CHOOSE c \in argv.code : TRUE
      series == getStockPriceSeries(st, stockCode, argv.endDate, {points.n},
                                    ~argv.noBackfill, plan)
      result == getStockPriceAtDate(st, stockCode, argv.date, ~argv.noBackfill, plan)
  IN IF argv.code = {} THEN Exit(1, <<>>, st)
     ELSE IF given
       THEN IF ~isFinite(points) THEN Exit(1, <<>>, st)
            ELSE IF points.n <= 0 THEN Exit(1, <<>>, st)
            ELSE Exit(IF series.status = "throw" THEN 1 ELSE 0,
                      <<"getStockPriceSeries">>, series.st)
     ELSE Exit(IF result.status = "throw" THEN 1 ELSE 0,
               <<"getStockPriceAtDate">>, result.st)

\* ------------------------------------------------ daily snapshot job
\* the record main() pushes for one response
DailyRecord(code, data) ==
  [stock_code |-> code,
   company_name |-> data.shikiho_name,
   ratio_of_price_to_200days_ma |-> data.ratio,
   current_price |-> data.stock_price,
   fetched_at |-> DateText(Today)]

\* the `for (const code of stockCodes)` loop: fetchCompanyData returns null
\* on a rejected request and the code is skipped
RECURSIVE DailyResults(_, _, _)
DailyResults(stockCodes, outs, i) ==
  IF i > Len(stockCodes) THEN <<>>
  ELSE LET rest == DailyResults(stockCodes, outs, i + 1)
       IN IF outs[i].ok
            THEN <<DailyRecord(stockCodes[i], outs[i].data)>> \o rest
          ELSE rest

\* main(), stockCodes being the list read from selected-stocks.json (or from
\* range-companies.json): [status, st]; writeFileSync throws when
\* output/history is missing
DailyMain(st, stockCodes, outs) ==
  IF ~st.dir THEN [status |-> "throw", st |-> st]
  ELSE [status |-> "ok", st |-> writeFile(st, Today, DailyResults(stockCodes, outs, 1))]

\* ------------------------------------------------------ trend detector
\* ratios are counted in hundredths (0.10 is 10); a ratio is {} (null or
\* undefined) or {n}
Threshold == 2

TrendRec(code, ratio) ==
  [stock_code |-> code, company_name |-> "n1", ratio_of_price_to_200days_ma |-> ratio]

\* oldMap.get(code) after oldData.forEach(r => oldMap.set(r.stock_code, r)):
\* the last record of the code, <<>> when there is none
oldMapGet(oldData, code) ==
  LET I == {i \in 1..Len(oldData) : oldData[i].stock_code = code}
  IN IF I = {} THEN <<>> ELSE oldData[CHOOSE i \in I : \A j \in I : j <= i]

\* (newRatio ?? 0) - (oldRatio ?? 0): a null ratio counted as 0
ChangeNullAsZero(oldRatio, newRatio) ==
  {(IF newRatio = {} THEN 0 ELSE CHOOSE n \in newRatio : TRUE)
     - (IF oldRatio = {} THEN 0 ELSE CHOOSE o \in oldRatio : TRUE)}

\* (newRatio != null && oldRatio != null) ? newRatio - oldRatio : null
Change(oldRatio, newRatio) ==
  IF oldRatio # {} /\ newRatio # {}
    THEN {(CHOOSE n \in newRatio : TRUE) - (CHOOSE o \in oldRatio : TRUE)}
  ELSE {}

\* >= and <= in place of > and <
ClassifyInclusive(change) ==
  IF change = {} THEN "neutral"
  ELSE LET c == CHOOSE x \in change : TRUE
       IN IF c >= Threshold THEN "up"
          ELSE IF c <= -Threshold THEN "down"
          ELSE "neutral"

Classify(change) ==
  IF change = {} THEN "neutral"
  ELSE LET c == CHOOSE x \in change : TRUE
       IN IF c > Threshold THEN "up"
          ELSE IF c < -Threshold THEN "down"
          ELSE "neutral"

\* the `for (const newRecord of newData)` loop from position i on
RECURSIVE TrendLoop(_, _, _)
TrendLoop(oldData, newData, i) ==
  IF i > Len(newData) THEN <<>>
  ELSE
    LET newRecord == newData[i]
        oldRecord == oldMapGet(oldData, newRecord.stock_code)
        oldRatio == oldRecord.ratio_of_price_to_200days_ma
        newRatio == newRecord.ratio_of_price_to_200days_ma
        change == Change(oldRatio, newRatio)
        rest == TrendLoop(oldData, newData, i + 1)
    IN IF oldRecord = <<>> THEN rest
       ELSE IF oldRatio = {} /\ newRatio = {} THEN rest
       ELSE IF Classify(change) = "neutral" THEN rest
       ELSE <<[stock_code |-> newRecord.stock_code,
               company_name |-> newRecord.company_name,
               old_ratio |-> oldRatio, new_ratio |-> newRatio,
               change |-> change,
               trend_direction |-> Classify(change)]>> \o rest

\* detectTrendChanges once both snapshots are loaded
detectTrendChanges(oldData, newData) == TrendLoop(oldData, newData, 1)

\* onMounted of the dashboard: changes.map(c => c.stock_code), handed to
\* loadTrendChangeData, which stores it in trendChangedStockCodes
MountedStockCodes(oldData, newData) ==
  LET changes == detectTrendChanges(oldData, newData)
  IN [i \in 1..Len(changes) |-> changes[i].stock_code]

\* getHistoryFiles looks for the files of today and of the days before
WindowDays == 30

\* getHistoryFiles: the dates whose file the server answers with, ascending
getHistoryFiles(hist) ==
  SortedSeq({d \in DOMAIN hist :
               d <= Today /\ d > Today - WindowDays /\ hist[d].kind # "absent"})

\* getComparisonFiles(daysAgo): [oldFile, newFile], {} for null
getComparisonFiles(hist, daysAgo) ==
  LET fs == getHistoryFiles(hist)
      targetDate == Today - daysAgo
      I == {i \in 1..Len(fs) : fs[i] <= targetDate}
  IN IF Len(fs) = 0 THEN [oldFile |-> {}, newFile |-> {}]
     ELSE [oldFile |-> IF I = {} THEN {}
                       ELSE {fs[CHOOSE i \in I : \A j \in I : j <= i]},
           newFile |-> {fs[Len(fs)]}]

\* detectTrendChanges(daysAgo) on the served history: [oldFile, newFile,
\* changes]; a body that does not parse throws into the catch
detectTrendChangesFrom(hist, daysAgo) ==
  LET c == getComparisonFiles(hist, daysAgo)
      o == CHOOSE d \in c.oldFile : TRUE
      n == CHOOSE d \in c.newFile : TRUE
  IN IF c.oldFile = {} \/ c.newFile = {}
       THEN [oldFile |-> c.oldFile, newFile |-> c.newFile, changes |-> <<>>]
     ELSE IF hist[o].kind = "bad" \/ hist[n].kind = "bad"
       THEN [oldFile |-> c.oldFile, newFile |-> c.newFile, changes |-> <<>>]
     ELSE [oldFile |-> c.oldFile, newFile |-> c.newFile,
           changes |-> detectTrendChanges(hist[o].recs, hist[n].recs)]

\* ------------------------------------------------- high-growth filter
\* A performance row: its period (a fiscal year; a later period compares
\* greater), netSales as {} (null) or {n}, isActual, isQuarterly.
Row(period, netSales, isActual, isQuarterly) ==
  [period |-> period, netSales |-> netSales, isActual |-> isActual,
   isQuarterly |-> isQuarterly]

SalesOf(row) == CHOOSE n \in row.netSales : TRUE

\* rows.sort((a, b) => b.period.localeCompare(a.period))
RECURSIVE SortByPeriodDesc(_)
SortByPeriodDesc(rows) ==
  IF Len(rows) = 0 THEN <<>>
  ELSE LET m == CHOOSE i \in 1..Len(rows) :
                  \A j \in 1..Len(rows) :
                    rows[j].period < rows[i].period \/ (rows[j].period = rows[i].period /\ i <= j)
           rest == [k \in 1..(Len(rows) - 1) |-> IF k < m THEN rows[k] ELSE rows[k + 1]]
       IN <<rows[m]>> \o SortByPeriodDesc(rest)

\* rows.slice(0, n)
SliceFirst(rows, n) == SubSeq(rows, 1, Min(n, Len(rows)))

\* the filter of lines 131-132
IsAnnualResult(row) == row.isActual /\ row.netSales # {} /\ ~row.isQuarterly

\* >= in place of >: a year of equal sales counted as growth
GrowthOrEqual(actualResults, i) ==
  IF \A k \in i..(Len(actualResults) - 1) :
       SalesOf(actualResults[k]) >= SalesOf(actualResults[k + 1])
    THEN Len(actualResults) - 1
  ELSE 0

\* the `for` loop of lines 141-151 from index i on: increases counted until
\* the first pair that is no increase
RECURSIVE ConsecutiveGrowth(_, _)
ConsecutiveGrowth(actualResults, i) ==
  IF i > Len(actualResults) - 1 THEN 0
  ELSE IF SalesOf(actualResults[i]) > SalesOf(actualResults[i + 1])
    THEN 1 + ConsecutiveGrowth(actualResults, i + 1)
  ELSE 0

\* the market cap compared with the limit as it is, not divided by 100
OverLimitUnconverted(marketCap, limit) ==
  /\ limit # {}
  /\ marketCap \notin {{}, {0}}
  /\ (CHOOSE m \in marketCap : TRUE) > (CHOOSE l \in limit : TRUE)

\* marketCapLimit !== null && company.marketCap && marketCap / 100 > limit;
\* marketCap in million yen, the limit in hundred-million yen, both {} or {n}
OverMarketCapLimit(marketCap, limit) ==
  /\ limit # {}
  /\ marketCap \notin {{}, {0}}
  /\ (CHOOSE m \in marketCap : TRUE) > 100 * (CHOOSE l \in limit : TRUE)

\* isHighGrowthCompany(company) under the settings consecutiveGrowthYears,
\* salesGrowthRatio (a fraction <<num, den>>) and marketCapLimit
isHighGrowthCompany(company, years, ratio, limit) ==
  LET minYears == years + 1
      actualResults ==
        SliceFirst(SortByPeriodDesc(SelectSeq(company.performanceData, IsAnnualResult)),
                   minYears)
      latestSales == SalesOf(actualResults[1])
      comparisonYearSales == SalesOf(actualResults[years + 1])
  IN IF Len(company.performanceData) < minYears THEN FALSE
     ELSE IF OverMarketCapLimit(company.marketCap, limit) THEN FALSE
     ELSE IF Len(actualResults) < minYears THEN FALSE
     ELSE IF ConsecutiveGrowth(actualResults, 1) < years THEN FALSE
     ELSE IF comparisonYearSales <= 0 THEN FALSE
     ELSE latestSales * ratio[2] >= ratio[1] * comparisonYearSales

\* the settings useCompanyData starts with: consecutiveGrowthYears,
\* salesGrowthRatio (2.0 as a fraction) and marketCapLimit (null)
DefaultYears == 4
DefaultRatio == <<2, 1>>
DefaultLimit == {}

\* the fixed filter with three years in place of four
isHighGrowthThreeYears(company) == isHighGrowthCompany(company, 3, <<2, 1>>, {})

\* the fixed filter of the earlier useCompanyData: four consecutive years of
\* growth over the newest five annual results, and sales at least doubled
isHighGrowthCompanyFixed(company) ==
  LET actualResults ==
        SliceFirst(SortByPeriodDesc(SelectSeq(company.performanceData, IsAnnualResult)), 5)
      latestSales == SalesOf(actualResults[1])
      fourYearsAgoSales == SalesOf(actualResults[5])
  IN IF Len(company.performanceData) < 5 THEN FALSE
     ELSE IF Len(actualResults) < 5 THEN FALSE
     ELSE IF ConsecutiveGrowth(actualResults, 1) < 4 THEN FALSE
     ELSE IF fourYearsAgoSales <= 0 THEN FALSE
     ELSE latestSales >= 2 * fourYearsAgoSales

\* company.performanceData once isHighGrowthCompany has returned: filter
\* builds a new array, and sort and slice act on that array
performanceDataAfter(company) == company.performanceData

\* ------------------------------------------------ dashboard filters
\* the refs of useCompanyData the filters read; favoriteStockCodes is a set
\* of codes, trendChangedStockCodes a list
DashCompany(stockCode, error, performanceData) ==
  [stockCode |-> stockCode, error |-> error, performanceData |-> performanceData,
   marketCap |-> {}]

\* !company.error
NoError(company) == company.error \in {Undef, Null, ""}

successfulCompanies(companies, ui) ==
  LET filtered == SelectSeq(companies, NoError)
  IN IF ui.favoriteStockCodes # {}
       THEN SelectSeq(filtered, LAMBDA c : c.stockCode \in ui.favoriteStockCodes)
     ELSE filtered

highGrowthCompanies(companies, ui) ==
  SelectSeq(successfulCompanies(companies, ui),
            LAMBDA c : isHighGrowthCompany(c, ui.consecutiveGrowthYears, DefaultRatio,
                                           DefaultLimit))

trendChangeCompanies(companies, ui) ==
  IF Len(ui.trendChangedStockCodes) = 0 THEN <<>>
  ELSE SelectSeq(successfulCompanies(companies, ui),
                 LAMBDA c : c.stockCode \in Range(ui.trendChangedStockCodes))

displayCompanies(companies, ui) ==
  IF ui.showTrendChangeOnly THEN trendChangeCompanies(companies, ui)
  ELSE IF ui.showHighGrowthOnly THEN highGrowthCompanies(companies, ui)
  ELSE successfulCompanies(companies, ui)

\* toggleHighGrowthFilter without the line that switches the other off
toggleHighGrowthAlone(ui) ==
  [ui EXCEPT !.showHighGrowthOnly = ~ui.showHighGrowthOnly]

toggleHighGrowthFilter(ui) ==
  [ui EXCEPT !.showHighGrowthOnly = ~ui.showHighGrowthOnly,
             !.showTrendChangeOnly = IF ~ui.showHighGrowthOnly THEN FALSE ELSE @]

toggleTrendChangeFilter(ui) ==
  [ui EXCEPT !.showTrendChangeOnly = ~ui.showTrendChangeOnly,
             !.showHighGrowthOnly = IF ~ui.showTrendChangeOnly THEN FALSE ELSE @]

loadTrendChangeData(ui, stockCodes) == [ui EXCEPT !.trendChangedStockCodes = stockCodes]

updateGrowthSettings(ui, years) == [ui EXCEPT !.consecutiveGrowthYears = years]

toggleFavorite(ui, stockCode) ==
  [ui EXCEPT !.favoriteStockCodes =
     IF stockCode \in @ THEN @ \ {stockCode} ELSE @ \cup {stockCode}]

\* ----------------------------------------------------- range fetcher
\* An entry of range-companies.json: the fields the script looks at, and
\* updatedAt ("old": written by an earlier run, "new": by this one).
Company(stockCode, companyId, companyName, isExist, error, updatedAt) ==
  [stockCode |-> stockCode, companyId |-> companyId, companyName |-> companyName,
   isExist |-> isExist, error |-> error, updatedAt |-> updatedAt]

\* c && c.companyName && c.companyName !== 'N/A' && c.isExist !== '0' && !c.error
IsValidCompany(c) ==
  /\ c.companyName \notin {Undef, "", "N/A"}
  /\ c.isExist # "0"
  /\ c.error = Undef

\* what the API holds for a company id: nothing the request can get (null),
\* or a body with is_exist, stock_code and the name of its own rivals entry
RawNull == [got |-> FALSE, is_exist |-> "0", stock_code |-> Undef, name |-> Undef]
Raw(is_exist, stock_code, name) ==
  [got |-> TRUE, is_exist |-> is_exist, stock_code |-> stock_code, name |-> name]

\* formatCompanyData(rawData, companyId), rawData not null
formatCompanyData(rawData, companyId) ==
  Company(Coalesce(rawData.stock_code, companyId), companyId,
          Coalesce(rawData.name, "N/A"), rawData.is_exist, Undef, "new")

\* the existing range-companies.json: absent, unparsable, or { companies }
RangeAbsent == [kind |-> "absent", companies |-> <<>>]
RangeBad == [kind |-> "bad", companies |-> <<>>]
RangeData(companies) == [kind |-> "data", companies |-> companies]

\* the stockCode set alone, companyId not added
existingStockCodesOnly(existing) ==
  {c.stockCode : c \in {x \in Range(existing.companies) : IsValidCompany(x)}}

\* existingCompanyIds: the stockCode and the companyId of every valid entry
existingCompanyIds(existing) ==
  UNION {{c.stockCode, c.companyId} :
           c \in {x \in Range(existing.companies) : IsValidCompany(x)}}

REv(kind, id) == [ev |-> kind, id |-> id]

\* the numeric order of parseInt(stockCode) on the codes in use
CodeBefore(a, b) == a = "6758" /\ b = "7203"

\* companies.sort((a, b) => parseInt(a.stockCode) - parseInt(b.stockCode))
RECURSIVE SortByStockCode(_)
SortByStockCode(cs) ==
  IF Len(cs) = 0 THEN <<>>
  ELSE LET m == CHOOSE i \in 1..Len(cs) :
                  \A j \in 1..Len(cs) :
                    /\ ~CodeBefore(cs[j].stockCode, cs[i].stockCode)
                    /\ (j < i => CodeBefore(cs[i].stockCode, cs[j].stockCode))
           rest == [k \in 1..(Len(cs) - 1) |-> IF k < m THEN cs[k] ELSE cs[k + 1]]
       IN <<cs[m]>> \o SortByStockCode(rest)

\* the `for` loop of lines 175-211 from index i on;
\* acc = [results, successCount, log]
RECURSIVE RangeLoop(_, _, _, _)
RangeLoop(acc, ids, raws, i) ==
  IF i > Len(ids) THEN acc
  ELSE
    LET companyId == ids[i]
        rawData == raws[companyId]
        formattedData == formatCompanyData(rawData, companyId)
        kept == rawData.got /\ rawData.is_exist = "1" /\ IsValidCompany(formattedData)
        wait == IF i < Len(ids) THEN <<REv("delay", companyId)>> ELSE <<>>
    IN RangeLoop([results |-> IF kept THEN Append(acc.results, formattedData)
                               ELSE acc.results,
                  successCount |-> IF kept THEN acc.successCount + 1 ELSE acc.successCount,
                  log |-> acc.log \o <<REv("fetch", companyId)>> \o wait],
                 ids, raws, i + 1)

\* fetchRangeData(companyIds, outputFile, allowDuplicates) on the existing
\* file, raws[id] being what the API holds: [file, written, log,
\* totalCompanies]; totalCompanies is the field of the file written
fetchRangeData(existing, companyIds, allowDuplicates, raws) ==
  LET known == IF existing.kind = "data" THEN existingCompanyIds(existing) ELSE {}
      filteredCompanyIds ==
        IF allowDuplicates THEN companyIds
        ELSE SelectSeq(companyIds, LAMBDA id : id \notin known)
      start == [results |-> IF existing.kind = "data" THEN existing.companies ELSE <<>>,
                successCount |-> 0, log |-> <<>>]
      done == RangeLoop(start, filteredCompanyIds, raws, 1)
      fresh == SliceLast(done.results, done.successCount)
      newStockCodes == {c.stockCode : c \in Range(fresh)}
      existingWithoutDuplicates ==
        IF existing.kind = "data"
          THEN SelectSeq(existing.companies, LAMBDA c : c.stockCode \notin newStockCodes)
        ELSE <<>>
      finalResults == IF allowDuplicates THEN existingWithoutDuplicates \o fresh
                      ELSE done.results
      filteredResults == SelectSeq(finalResults, IsValidCompany)
  IN IF ~allowDuplicates /\ Len(filteredCompanyIds) = 0
       THEN [file |-> existing, written |-> FALSE, log |-> <<>>,
             totalCompanies |-> Len(existing.companies)]
     ELSE [file |-> RangeData(SortByStockCode(filteredResults)), written |-> TRUE,
           log |-> Append(done.log, REv("write", "")),
           totalCompanies |-> Len(filteredResults)]

\* ------------------------------------------------ Kabutan trend scraper
\* the four periods of interface Trends: 5-, 25-, 75- and 200-day line
trendKeys == <<"5d", "25d", "75d", "200d">>

\* StockData; trends is the list of the four directions, <<>> for null
StockData(stockCode, trends) == [stockCode |-> stockCode, trends |-> trends]

TrendsAbsent == [kind |-> "absent"]
TrendsBad == [kind |-> "bad"]
TrendsData(data) == [kind |-> "array", data |-> data]

PreviousData(data, date) == [found |-> TRUE, data |-> data, date |-> date]
NoPreviousData == [found |-> FALSE]

\* the dated files of the directory, latest.json left out, newest first
DatedFilesOf(trendFiles) == {d \in DOMAIN trendFiles : trendFiles[d].kind # "absent"}

\* files[0] after sort().reverse(): the newest dated file
newestDated(trendFiles) == CHOOSE d \in DatedFilesOf(trendFiles) : \A e \in DatedFilesOf(trendFiles) : e <= d

loadPreviousData(trendFiles) ==
  IF DatedFilesOf(trendFiles) = {} THEN NoPreviousData
  ELSE LET d == newestDated(trendFiles)
       IN IF trendFiles[d].kind = "bad" THEN NoPreviousData
          ELSE PreviousData(trendFiles[d].data, d)

TrendChange(stockCode, period, from, to) ==
  [stockCode |-> stockCode, period |-> period, from |-> from, to |-> to]

\* previous.find(p => p.stockCode === stockCode), <<>> when there is none
findStock(previous, stockCode) ==
  IF \E i \in 1..Len(previous) : previous[i].stockCode = stockCode
  THEN previous[CHOOSE i \in 1..Len(previous) :
                  /\ previous[i].stockCode = stockCode
                  /\ \A j \in 1..(i - 1) : previous[j].stockCode # stockCode]
  ELSE <<>>

RECURSIVE KeyLoop(_, _, _)
KeyLoop(company, prevCompany, k) ==
  IF k > Len(trendKeys) THEN <<>>
  ELSE (IF company.trends[k] # prevCompany.trends[k]
        THEN <<TrendChange(company.stockCode, trendKeys[k],
                           prevCompany.trends[k], company.trends[k])>>
        ELSE <<>>) \o KeyLoop(company, prevCompany, k + 1)

RECURSIVE detectChangesLoop(_, _, _)
detectChangesLoop(current, previous, i) ==
  IF i > Len(current) THEN <<>>
  ELSE LET company == current[i]
           prevCompany == findStock(previous, company.stockCode)
       IN (IF company.trends = <<>> THEN <<>>
           ELSE IF prevCompany = <<>> THEN <<>>
           ELSE IF prevCompany.trends = <<>> THEN <<>>
           ELSE KeyLoop(company, prevCompany, 1))
          \o detectChangesLoop(current, previous, i + 1)

detectChanges(current, previous) == detectChangesLoop(current, previous, 1)

KEv(kind, code) == [kind |-> kind, code |-> code]

\* the loop of main over config.companyIds: a fetch, then a sleep
RECURSIVE ScrapeLog(_, _)
ScrapeLog(companyIds, i) ==
  IF i > Len(companyIds) THEN <<>>
  ELSE <<KEv("fetch", companyIds[i]), KEv("delay", companyIds[i])>>
         \o ScrapeLog(companyIds, i + 1)

\* main: today's file and latest.json are written, then the newest dated
\* file is loaded and compared with the results
scraperMain(trendFiles, results) ==
  LET saved == [trendFiles EXCEPT ![Today] = TrendsData(results)]
      previousData == loadPreviousData(saved)
  IN [trendFiles |-> saved,
      latest |-> TrendsData(results),
      report |-> IF previousData.found THEN "compared" ELSE "noComparisonData",
      previousDate |-> IF previousData.found THEN {previousData.date} ELSE {},
      changes |-> IF previousData.found
                  THEN detectChanges(results, previousData.data) ELSE <<>>,
      log |-> ScrapeLog([i \in 1..Len(results) |-> results[i].stockCode], 1)]

\* the requests and waits of the loop of main(): every code is fetched,
\* and a wait of 500 ms follows each
RECURSIVE DailyLog(_, _)
DailyLog(stockCodes, i) ==
  IF i > Len(stockCodes) THEN <<>>
  ELSE <<REv("fetch", stockCodes[i]), REv("delay", stockCodes[i])>>
         \o DailyLog(stockCodes, i + 1)

\* ---------------------------------------------------------------- state
VARIABLES
  dirExists,       \* output/history exists
  junk,            \* it holds an entry not named YYYY-MM-DD.json
  files,           \* [Days -> file], the snapshot files
  before,          \* the store when the observed call was made
  call,            \* the call under observation
  ret              \* and what it returned

vars == <<dirExists, junk, files, before, call, ret>>

Store == [dir |-> dirExists, junk |-> junk, files |-> files]
SetStore(st) == dirExists' = st.dir /\ junk' = st.junk /\ files' = st.files

NoCall == [op |-> "none"]
NoRet == [status |-> "none"]

\* the JSON arrays POST /api/save-selected-stocks stores as they are
CodeLists == UNION {[1..n -> Codes] : n \in 0..MaxList}

\* from an empty (or not yet created) history directory
Init ==
  /\ dirExists \in BOOLEAN
  /\ junk = FALSE
  /\ files = [d \in Days |-> FileAbsent]
  /\ before = Store
  /\ call = NoCall
  /\ ret = NoRet

\* npm run get-history-price -- --code c --date d   (backfill is the default)
BackfillAtDate ==
  \E c \in Codes, d \in Days, o \in Outcomes :
    /\ SetStore(getStockPriceAtDate(Store, c, Dash(d), TRUE, <<o>>).st)
    /\ UNCHANGED <<before, call, ret>>

\* npm run get-history-price -- --code c --points n --end-date d
BackfillSeries ==
  \E c \in Codes, d \in Days, n \in 1..MaxPoints, o \in Outcomes :
    /\ SetStore(getStockPriceSeries(Store, c, Dash(d), {n}, TRUE, <<o>>).st)
    /\ UNCHANGED <<before, call, ret>>

\* npm run fetch-daily-history
DailyJob ==
  \E stockCodes \in CodeLists :
    \E outs \in [1..Len(stockCodes) -> Outcomes] :
      /\ SetStore(DailyMain(Store, stockCodes, outs).st)
      /\ UNCHANGED <<before, call, ret>>

\* a snapshot file is damaged from outside (truncated write, manual edit)
Corrupt ==
  \E d \in Days :
    /\ files[d].kind = "array"
    /\ files' = [files EXCEPT ![d] = FileBad]
    /\ UNCHANGED <<dirExists, junk, before, call, ret>>

Next ==
  \/ BackfillAtDate
  \/ BackfillSeries
  \/ DailyJob
  \/ Corrupt

Spec == Init /\ [][Next]_vars

\* ------------------------------------------- one call on a given store
\* a record as a backfill leaves it in the file of day d
Snap(c, data, d) == Stringify(Stamp(fetchLatestStockSnapshot(c, data), d))

\* what the file of day d may hold when the observed call is made
DrawnFile(d) ==
  {FileAbsent, FileBad,
   FileArray(<<Snap("7203", Listed, d)>>),
   FileArray(<<Snap("7203", Bare, d), Stringify(DailyRecord("6758", Listed))>>)}

DrawnFiles ==
  {f \in [Days -> UNION {DrawnFile(d) : d \in Days}] : \A d \in Days : f[d] \in DrawnFile(d)}

\* the date arguments tried: absent, empty, both accepted forms of every day,
\* and texts of neither form
BadDates == {Text("/", "-", 1), Dash(0)}
DateArgs == {ArgUndefined, ArgEmpty} \cup {Dash(d) : d \in Days}
              \cup {Slash(d) : d \in Days} \cup BadDates

\* `points`: not given, or 0..MaxPoints
PointsArgs == {{}} \cup {{n} : n \in 0..MaxPoints}

\* how the API answers the requests of one call: the first, then the others
Answer(data) == [ok |-> TRUE, data |-> data]
Plans == {<<o>> : o \in Outcomes}
           \cup {<<Answer(Listed), Rejected>>, <<Answer(Listed), Answer(Bare)>>,
                 <<Answer(Bare), Answer(Listed)>>}

Call(op, code, date, points, backfill, plan) ==
  [op |-> op, code |-> code, date |-> date, points |-> points,
   backfill |-> backfill, plan |-> plan]

ResolveCalls ==
  {Call("resolveHistoryFileForDate", "7203", a, {}, FALSE, <<Rejected>>) : a \in DateArgs}
AtDateCalls ==
  {Call("getStockPriceAtDate", c, a, {}, FALSE, <<Rejected>>) : c \in Codes, a \in DateArgs}
    \cup {Call("getStockPriceAtDate", c, a, {}, TRUE, <<o>>) :
            c \in Codes, a \in DateArgs, o \in Outcomes}
SeriesCalls ==
  {Call("getStockPriceSeries", c, a, n, FALSE, <<Rejected>>) :
     c \in Codes, a \in DateArgs, n \in PointsArgs}
    \cup {Call("getStockPriceSeries", c, a, n, TRUE, p) :
            c \in Codes, a \in DateArgs, n \in PointsArgs, p \in Plans}
\* upsertHistoryRecord(<d>.json, the stamped snapshot of a response)
UpsertCalls ==
  {Call("upsertHistoryRecord", c, Dash(d), {}, TRUE, <<[ok |-> TRUE, data |-> r]>>) :
     c \in Codes \cup {"9984"}, d \in Days, r \in Responses}
ReadCalls ==
  {Call("readHistoryFile", "7203", Dash(d), {}, FALSE, <<Rejected>>) : d \in Days}

InitCall(calls) ==
  /\ dirExists \in BOOLEAN
  /\ junk \in (IF dirExists THEN BOOLEAN ELSE {FALSE})
  /\ files \in (IF dirExists THEN DrawnFiles ELSE {[d \in Days |-> FileAbsent]})
  /\ before = Store
  /\ call \in calls
  /\ ret = NoRet

Pending(op) == call.op = op /\ ret = NoRet

DoResolve ==
  /\ Pending("resolveHistoryFileForDate")
  /\ ret' = resolveHistoryFileForDate(Store, call.date)
  /\ UNCHANGED <<dirExists, junk, files, before, call>>

DoAtDate ==
  /\ Pending("getStockPriceAtDate")
  /\ LET r == getStockPriceAtDate(Store, call.code, call.date, call.backfill, call.plan)
     IN /\ SetStore(r.st)
        /\ ret' = [status |-> r.status, error |-> r.error, resolved |-> r.resolved,
                   price |-> r.price, log |-> r.log]
  /\ UNCHANGED <<before, call>>

DoSeries ==
  /\ Pending("getStockPriceSeries")
  /\ LET r == getStockPriceSeries(Store, call.code, call.date, call.points,
                                  call.backfill, call.plan)
     IN /\ SetStore(r.st)
        /\ ret' = [status |-> r.status, error |-> r.error, series |-> r.series,
                   log |-> r.log]
  /\ UNCHANGED <<before, call>>

\* the record handed to upsertHistoryRecord by the observed call
UpsertArg(c) ==
  Stamp(fetchLatestStockSnapshot(c.code, c.plan[1].data), c.date.dd)

\* fs.writeFile rejects (ENOENT) when output/history does not exist
DoUpsert ==
  /\ Pending("upsertHistoryRecord")
  /\ IF dirExists
       THEN /\ SetStore(upsertHistoryRecord(Store, call.date.dd, UpsertArg(call)))
            /\ ret' = [status |-> "ok"]
     ELSE /\ UNCHANGED <<dirExists, junk, files>>
          /\ ret' = [status |-> "throw"]
  /\ UNCHANGED <<before, call>>

DoRead ==
  /\ Pending("readHistoryFile")
  /\ ret' = [status |-> "ok", records |-> readHistoryFile(Store, call.date.dd)]
  /\ UNCHANGED <<dirExists, junk, files, before, call>>

NextCall == DoResolve \/ DoAtDate \/ DoSeries \/ DoUpsert \/ DoRead

SpecCall ==
  InitCall(ResolveCalls \cup AtDateCalls \cup SeriesCalls \cup UpsertCalls \cup ReadCalls)
    /\ [][NextCall]_vars

\* ------------------------------------------ one high-growth evaluation
\* what the company's table may hold for one period: nothing, a forecast, a
\* quarterly row, an actual row without net sales, or an actual annual row
RowChoices(p) ==
  {<<>>,
   <<Row(p, {300}, FALSE, FALSE)>>,
   <<Row(p, {50}, TRUE, TRUE)>>,
   <<Row(p, {}, TRUE, FALSE)>>}
    \cup {<<Row(p, {n}, TRUE, FALSE)>> : n \in {0, 100, 150, 200, 300}}

\* tables listing periods 1..p, oldest first
RECURSIVE Tables(_)
Tables(p) ==
  IF p = 0 THEN {<<>>}
  ELSE {t \o r : t \in Tables(p - 1), r \in RowChoices(p)}

\* <<marketCapLimit, marketCap>>
MarketCases == {<<{}, {1001}>>, <<{10}, {}>>, <<{10}, {1000}>>, <<{10}, {1001}>>}
GrowthRatios == {<<2, 1>>, <<3, 2>>}

InitGrowth ==
  /\ dirExists = FALSE
  /\ junk = FALSE
  /\ files = [d \in Days |-> FileAbsent]
  /\ before = Store
  /\ call \in {[op |-> "isHighGrowthCompany",
                 company |-> [performanceData |-> t, marketCap |-> m[2]],
                 years |-> n, ratio |-> r, limit |-> m[1]] :
                 t \in Tables(MaxPeriod), m \in MarketCases,
                 n \in 1..(MaxPeriod - 1), r \in GrowthRatios}
  /\ ret = NoRet

DoGrowth ==
  /\ Pending("isHighGrowthCompany")
  /\ ret' = [status |-> "ok",
             result |-> isHighGrowthCompany(call.company, call.years, call.ratio, call.limit)]
  /\ UNCHANGED <<dirExists, junk, files, before, call>>

SpecGrowth == InitGrowth /\ [][DoGrowth]_vars

\* ------------------------------------------------- one range fetch
OldCompany(stockCode, companyId) == Company(stockCode, companyId, "n0", "1", Undef, "old")
\* entries an earlier version of the script could leave: a placeholder
Placeholder(id) == Company(id, id, "N/A", "0", "e", "old")

ExistingFiles ==
  {RangeAbsent, RangeBad, RangeData(<<>>),
   RangeData(<<OldCompany("7203", "7203")>>),
   RangeData(<<OldCompany("7203", "6758")>>),
   RangeData(<<Placeholder("7203")>>),
   RangeData(<<OldCompany("6758", "6758"), Placeholder("7203")>>),
   RangeData(<<OldCompany("6758", "6758"), OldCompany("7203", "7203")>>)}

\* parseArgs: at least one id, duplicates removed
CompanyIdLists ==
  {<<a>> : a \in Codes} \cup {s \in {<<a, b>> : a \in Codes, b \in Codes} : s[1] # s[2]}

\* the body's stock_code is the API's word: the id asked for, nothing, or
\* another code (formatCompanyData takes it before the id)
RawsOf(id) ==
  {RawNull, Raw("0", id, "n1"), Raw("1", id, "n1"), Raw("1", id, Undef),
   Raw("1", Undef, "n1")} \cup {Raw("1", c, "n1") : c \in Codes \ {id}}

InitRange ==
  /\ dirExists = FALSE
  /\ junk = FALSE
  /\ files = [d \in Days |-> FileAbsent]
  /\ before = Store
  /\ call \in {[op |-> "fetchRangeData", existing |-> e, companyIds |-> ids,
                 allowDuplicates |-> a, raws |-> r] :
                 e \in ExistingFiles, ids \in CompanyIdLists, a \in BOOLEAN,
                 r \in {f \in [Codes -> UNION {RawsOf(id) : id \in Codes}] :
                          \A id \in Codes : f[id] \in RawsOf(id)}}
  /\ ret = NoRet

DoRange ==
  /\ Pending("fetchRangeData")
  /\ LET r == fetchRangeData(call.existing, call.companyIds, call.allowDuplicates, call.raws)
     IN ret' = [status |-> "ok", file |-> r.file, written |-> r.written, log |-> r.log,
                totalCompanies |-> r.totalCompanies]
  /\ UNCHANGED <<dirExists, junk, files, before, call>>

SpecRange == InitRange /\ [][DoRange]_vars

\* -------------------------------------- one comparison of two snapshots
TrendRatios == {{}} \cup {{n} : n \in {-5, 10, 12, 13}}

\* snapshots of at most one record per stock
TrendSnapshots ==
  {<<>>} \cup {<<TrendRec(c, r)>> : c \in Codes, r \in TrendRatios}
    \cup {s \in {<<TrendRec(c1, r1), TrendRec(c2, r2)>> :
                   c1 \in Codes, c2 \in Codes, r1 \in TrendRatios, r2 \in TrendRatios} :
            s[1].stock_code # s[2].stock_code}

InitTrend ==
  /\ dirExists = FALSE
  /\ junk = FALSE
  /\ files = [d \in Days |-> FileAbsent]
  /\ before = Store
  /\ call \in {[op |-> "detectTrendChanges", oldData |-> o, newData |-> n] :
                 o \in TrendSnapshots, n \in TrendSnapshots}
  /\ ret = NoRet

DoDetect ==
  /\ Pending("detectTrendChanges")
  /\ ret' = [status |-> "ok", changes |-> detectTrendChanges(call.oldData, call.newData)]
  /\ UNCHANGED <<dirExists, junk, files, before, call>>

\* the dashboard is mounted while the two compared snapshots are o and n
InitMounted ==
  /\ dirExists = FALSE
  /\ junk = FALSE
  /\ files = [d \in Days |-> FileAbsent]
  /\ before = Store
  /\ call \in {[op |-> "onMounted", oldData |-> o, newData |-> n] :
                 o \in TrendSnapshots, n \in TrendSnapshots}
  /\ ret = NoRet

DoMounted ==
  /\ Pending("onMounted")
  /\ ret' = [status |-> "ok",
             trendChangedStockCodes |-> MountedStockCodes(call.oldData, call.newData)]
  /\ UNCHANGED <<dirExists, junk, files, before, call>>

SpecTrend == (InitTrend \/ InitMounted) /\ [][DoDetect \/ DoMounted]_vars

\* ------------------------------------------------- one scraper run
Up == "up"
Down == "down"
TrendsChoices ==
  {<<>>, <<Up, Up, Up, Up>>, <<Down, Down, Down, Down>>, <<Up, Up, Up, Down>>}

\* config.companyIds is <<"7203", "6758">>: one StockData per id, in order
ScrapeResults ==
  {<<StockData("7203", a), StockData("6758", b)>> : a \in TrendsChoices, b \in TrendsChoices}

\* what an earlier run left: a file of that run's results, for the ids
\* configured then
EarlierData ==
  ScrapeResults \cup {<<StockData("7203", a)>> : a \in TrendsChoices}

\* dated files exist for days that have passed; today's file can be
\* there from a run earlier in the day
TrendDirs ==
  {f \in [Days -> {TrendsAbsent, TrendsBad} \cup {TrendsData(e) : e \in EarlierData}] :
     /\ \A d \in Days : d > Today => f[d] = TrendsAbsent
     /\ \A d \in Days : d < Today - 1 => f[d] = TrendsAbsent
     /\ f[Today] \in {TrendsAbsent,
                      TrendsData(<<StockData("7203", <<Up, Up, Up, Up>>),
                                   StockData("6758", <<Up, Up, Up, Up>>)>>)}}

InitScraper ==
  /\ dirExists = FALSE
  /\ junk = FALSE
  /\ files = [d \in Days |-> FileAbsent]
  /\ before = Store
  /\ call \in {[op |-> "scraperMain", trendFiles |-> f, results |-> r] :
                 f \in TrendDirs, r \in ScrapeResults}
  /\ ret = NoRet

DoScraper ==
  /\ Pending("scraperMain")
  /\ LET r == scraperMain(call.trendFiles, call.results)
     IN ret' = [status |-> "ok", trendFiles |-> r.trendFiles, latest |-> r.latest,
                report |-> r.report, previousDate |-> r.previousDate,
                changes |-> r.changes, log |-> r.log]
  /\ UNCHANGED <<dirExists, junk, files, before, call>>

SpecScraper == InitScraper /\ [][DoScraper]_vars

\* ------------------------------------------------- one run of the driver
PointsTexts == {"", "0", "-1", "1", "2", "abc", "Infinity"}

DriverDates == {ArgUndefined, Dash(1)}

DriverArgvs ==
  {Argv(c, p, d, e, nb) :
     c \in {{}, {"7203"}}, p \in {{}} \cup {{t} : t \in PointsTexts},
     d \in DriverDates, e \in DriverDates, nb \in BOOLEAN}

InitDriver ==
  /\ dirExists \in BOOLEAN
  /\ junk = FALSE
  /\ files \in (IF dirExists THEN DrawnFiles ELSE {[d \in Days |-> FileAbsent]})
  /\ before = Store
  /\ call \in {[op |-> "main", argv |-> a, plan |-> p] :
                 a \in DriverArgvs, p \in {<<Rejected>>, <<Answer(Listed)>>, <<Answer(Bare)>>}}
  /\ \/ ~call.argv.noBackfill
     \/ call.plan = <<Rejected>>
  /\ ret = NoRet

DoDriver ==
  /\ Pending("main")
  /\ LET r == driverMain(Store, call.argv, call.plan)
     IN /\ SetStore(r.st)
        /\ ret' = [status |-> "exit", exitCode |-> r.exitCode, called |-> r.called]
  /\ UNCHANGED <<before, call>>

SpecDriver == InitDriver /\ [][DoDriver]_vars

\* ------------------------------------------- two upserts on one file
\* two calls of upsertHistoryRecord on the file of one date, for different
\* stock codes, started together: each call is a read step (line 73) and,
\* after its await, a write step (lines 74-80)
Tasks == {1, 2}

UpsertPairs ==
  {[op |-> "upsertPair", date |-> Dash(d),
    records |-> <<Stamp(fetchLatestStockSnapshot(c[1], r1), d),
                  Stamp(fetchLatestStockSnapshot(c[2], r2), d)>>] :
     d \in Days, c \in {<<"7203", "6758">>, <<"6758", "7203">>},
     r1 \in Responses, r2 \in Responses}

TStep(task, step) == [task |-> task, step |-> step]

InitUpsertPair ==
  /\ dirExists = TRUE
  /\ junk = FALSE
  /\ files \in DrawnFiles
  /\ before = Store
  /\ call \in UpsertPairs
  /\ ret = [status |-> "none", pc |-> [t \in Tasks |-> "start"],
            records |-> [t \in Tasks |-> <<>>], trace |-> <<>>]

ReadStep(t) ==
  /\ call.op = "upsertPair"
  /\ ret.pc[t] = "start"
  /\ ret' = [ret EXCEPT !.pc[t] = "read",
                        !.records[t] = readHistoryFile(Store, call.date.dd),
                        !.trace = Append(@, TStep(t, "read"))]
  /\ UNCHANGED <<dirExists, junk, files, before, call>>

WriteStep(t) ==
  /\ call.op = "upsertPair"
  /\ ret.pc[t] = "read"
  /\ SetStore(upsertFrom(Store, call.date.dd, ret.records[t], call.records[t]))
  /\ ret' = [ret EXCEPT !.pc[t] = "done",
                        !.trace = Append(@, TStep(t, "write")),
                        !.status = IF \A u \in Tasks \ {t} : ret.pc[u] = "done"
                                   THEN "ok" ELSE "none"]
  /\ UNCHANGED <<before, call>>

NextUpsertPair == \E t \in Tasks : ReadStep(t) \/ WriteStep(t)

SpecUpsertPair == InitUpsertPair /\ [][NextUpsertPair]_vars

\* ------------------------------------------------- one daily job
InitDaily ==
  /\ dirExists \in BOOLEAN
  /\ junk = FALSE
  /\ files \in (IF dirExists THEN DrawnFiles ELSE {[d \in Days |-> FileAbsent]})
  /\ before = Store
  /\ call \in UNION {{[op |-> "dailyMain", stockCodes |-> s, outs |-> o] :
                         o \in [1..Len(s) -> Outcomes]} : s \in CodeLists}
  /\ ret = NoRet

DoDaily ==
  /\ Pending("dailyMain")
  /\ LET r == DailyMain(Store, call.stockCodes, call.outs)
     IN /\ SetStore(r.st)
        /\ ret' = [status |-> r.status, log |-> DailyLog(call.stockCodes, 1)]
  /\ UNCHANGED <<before, call>>

SpecDaily == InitDaily /\ [][DoDaily]_vars

\* ------------------------------------------- a lookup and its repetition
\* files as the pipeline writes them: every record carries the date of its
\* file in fetched_at
StampedFile(d) ==
  {FileAbsent, FileBad,
   FileArray(<<Snap("7203", Listed, d)>>),
   FileArray(<<Snap("7203", Bare, d), Snap("6758", Listed, d)>>)}

StampedFiles ==
  {f \in [Days -> UNION {StampedFile(d) : d \in Days}] : \A d \in Days : f[d] \in StampedFile(d)}

InitAgain ==
  /\ dirExists \in BOOLEAN
  /\ junk = FALSE
  /\ files \in (IF dirExists THEN StampedFiles ELSE {[d \in Days |-> FileAbsent]})
  /\ before = Store
  /\ call \in {c \in AtDateCalls : c.backfill}
  /\ ret = NoRet

\* the same call made once more after the first has returned
DoAtDateAgain ==
  /\ call.op = "getStockPriceAtDate"
  /\ ret.status = "ok"
  /\ LET r == getStockPriceAtDate(Store, call.code, call.date, call.backfill, call.plan)
     IN /\ SetStore(r.st)
        /\ ret' = [status |-> "twice", first |-> ret, mid |-> Store,
                   second |-> [status |-> r.status, error |-> r.error,
                               resolved |-> r.resolved, price |-> r.price,
                               log |-> r.log]]
  /\ UNCHANGED <<before, call>>

SpecAgain == InitAgain /\ [][DoAtDate \/ DoAtDateAgain]_vars

\* ------------------------------------- one detection on a served history
\* what a served file may hold; the last is a file of a daily job whose
\* list named the code twice
ServedFile ==
  {FileAbsent, FileBad,
   FileArray(<<TrendRec("7203", {10})>>),
   FileArray(<<TrendRec("7203", {13}), TrendRec("6758", {})>>),
   FileArray(<<TrendRec("7203", {10}), TrendRec("7203", {13})>>)}

InitCompare ==
  /\ dirExists = FALSE
  /\ junk = FALSE
  /\ files = [d \in Days |-> FileAbsent]
  /\ before = Store
  /\ call \in {[op |-> "detectTrendChangesFrom", hist |-> h, daysAgo |-> n] :
                 h \in [Days -> ServedFile], n \in 0..MaxDay}
  /\ ret = NoRet

DoCompare ==
  /\ Pending("detectTrendChangesFrom")
  /\ LET r == detectTrendChangesFrom(call.hist, call.daysAgo)
     IN ret' = [status |-> "ok", oldFile |-> r.oldFile, newFile |-> r.newFile,
                changes |-> r.changes]
  /\ UNCHANGED <<dirExists, junk, files, before, call>>

SpecCompare == InitCompare /\ [][DoCompare]_vars

\* ------------------------- one evaluation under the default settings
\* the row of period p: none, an actual row without sales, or an actual
\* annual row on one of three sales curves (steep, shallow, flat)
DefaultRowChoices(p) ==
  {<<>>, <<Row(p, {}, TRUE, FALSE)>>, <<Row(p, {50 * p}, TRUE, FALSE)>>,
   <<Row(p, {100 + 20 * p}, TRUE, FALSE)>>, <<Row(p, {200}, TRUE, FALSE)>>}

RECURSIVE DefaultTables(_)
DefaultTables(p) ==
  IF p = 0 THEN {<<>>}
  ELSE {t \o r : t \in DefaultTables(p - 1), r \in DefaultRowChoices(p)}

InitDefault ==
  /\ dirExists = FALSE
  /\ junk = FALSE
  /\ files = [d \in Days |-> FileAbsent]
  /\ before = Store
  /\ call \in {[op |-> "isHighGrowthCompanyDefault",
                 company |-> [performanceData |-> t, marketCap |-> m]] :
                 t \in DefaultTables(MaxPeriod + 2), m \in {{}, {1001}}}
  /\ ret = NoRet

DoDefault ==
  /\ Pending("isHighGrowthCompanyDefault")
  /\ ret' = [status |-> "ok",
             result |-> isHighGrowthCompany(call.company, DefaultYears, DefaultRatio,
                                            DefaultLimit),
             fixed |-> isHighGrowthCompanyFixed(call.company),
             performanceData |-> performanceDataAfter(call.company)]
  /\ UNCHANGED <<dirExists, junk, files, before, call>>

SpecDefault == InitDefault /\ [][DoDefault]_vars

\* ------------------------------------------------- the dashboard in use
\* the loaded companies: 7203 doubles its sales, 6758 does not grow, 9984
\* failed to load
Doubling == <<Row(1, {100}, TRUE, FALSE), Row(2, {300}, TRUE, FALSE)>>
Flat == <<Row(1, {100}, TRUE, FALSE), Row(2, {100}, TRUE, FALSE)>>
LoadedCompanies ==
  {<<>>,
   <<DashCompany("7203", Undef, Doubling)>>,
   <<DashCompany("7203", Undef, Doubling), DashCompany("6758", Undef, Flat)>>,
   <<DashCompany("6758", Undef, Flat), DashCompany("9984", "e", <<>>),
     DashCompany("7203", Undef, Doubling)>>}

Ui(high, trend, favs, changed, years, last, prevHigh, prevTrend) ==
  [status |-> "ui", showHighGrowthOnly |-> high, showTrendChangeOnly |-> trend,
   favoriteStockCodes |-> favs, trendChangedStockCodes |-> changed,
   consecutiveGrowthYears |-> years, last |-> last, prevHigh |-> prevHigh,
   prevTrend |-> prevTrend]

\* the handler that ran last and the two switches as they were before it
After(ui, last) ==
  [ui EXCEPT !.last = last, !.prevHigh = ret.showHighGrowthOnly,
             !.prevTrend = ret.showTrendChangeOnly]

InitDashboard ==
  /\ dirExists = FALSE
  /\ junk = FALSE
  /\ files = [d \in Days |-> FileAbsent]
  /\ before = Store
  /\ call \in {[op |-> "dashboard", companies |-> c] : c \in LoadedCompanies}
  /\ ret = Ui(FALSE, FALSE, {}, <<>>, DefaultYears, "none", FALSE, FALSE)

ToggleHighGrowth ==
  /\ call.op = "dashboard"
  /\ ret' = After(toggleHighGrowthFilter(ret), "toggleHighGrowthFilter")
  /\ UNCHANGED <<dirExists, junk, files, before, call>>

ToggleTrendChange ==
  /\ call.op = "dashboard"
  /\ ret' = After(toggleTrendChangeFilter(ret), "toggleTrendChangeFilter")
  /\ UNCHANGED <<dirExists, junk, files, before, call>>

LoadTrendChange ==
  /\ call.op = "dashboard"
  /\ \E codes \in {<<>>, <<"7203">>, <<"6758", "9984">>} :
       ret' = After(loadTrendChangeData(ret, codes), "loadTrendChangeData")
  /\ UNCHANGED <<dirExists, junk, files, before, call>>

UpdateSettings ==
  /\ call.op = "dashboard"
  /\ \E years \in {1, DefaultYears} :
       ret' = After(updateGrowthSettings(ret, years), "updateGrowthSettings")
  /\ UNCHANGED <<dirExists, junk, files, before, call>>

ToggleFavorite ==
  /\ call.op = "dashboard"
  /\ \E c \in {"7203", "9984"} :
       ret' = After(toggleFavorite(ret, c), "toggleFavorite")
  /\ UNCHANGED <<dirExists, junk, files, before, call>>

NextDashboard ==
  ToggleHighGrowth \/ ToggleTrendChange \/ LoadTrendChange \/ UpdateSettings
    \/ ToggleFavorite

SpecDashboard == InitDashboard /\ [][NextDashboard]_vars

\* ================================================================ claims
Done(op) == call.op = op /\ ret.status # "none"

DistinctCodes(recs) ==
  \A i \in 1..Len(recs) : \A j \in 1..Len(recs) :
    recs[i].stock_code = recs[j].stock_code => i = j

\* the date an accepted argument of the observed call stands for
IsDate(d) == call.date \in {Dash(d), Slash(d)}

\* ---- C1
\* C1: when the records of a snapshot file have pairwise distinct stock
\* codes, then after upsertHistoryRecord(file, r) has completed the file read
\* back holds exactly one record with r's stock code, and every field of that
\* record is r's (a field of the record stored before does not survive).
C1_UpsertYieldsTheRecord ==
  (/\ Done("upsertHistoryRecord")
   /\ ret.status = "ok"
   /\ DistinctCodes(readHistoryFile(before, call.date.dd)))
  => LET recs == readHistoryFile(Store, call.date.dd)
         r == UpsertArg(call)
         I == {i \in 1..Len(recs) : recs[i].stock_code = r.stock_code}
     IN /\ Cardinality(I) = 1
        /\ \A i \in I : \A k \in DOMAIN recs[i] \cup DOMAIN r :
             Get(recs[i], k) = Get(r, k)

\* a record of the code, with a name and a price, is replaced by one without
C1_ReplacedStored ==
  /\ Done("upsertHistoryRecord")
  /\ ret.status = "ok"
  /\ LET old == find(readHistoryFile(before, call.date.dd), call.code)
     IN /\ old # <<>>
        /\ Get(old, "company_name") = "n1"
        /\ PriceOf(old) = "p1"
  /\ UpsertArg(call).company_name = Undef
  /\ Len(readHistoryFile(before, call.date.dd)) = 2

\* ---- C2
\* C2: in every reachable state, starting from an empty history directory,
\* each snapshot file holds at most one record per stock code.
C2_OneRecordPerCode ==
  \A d \in Days : DistinctCodes(files[d].recs)

\* ---- C3
\* C3: when the file d.json exists, resolveHistoryFileForDate(d) returns
\* resolvedDate = d, whatever other files the directory holds.
C3_ExactMatchFirst ==
  \A d \in Days :
    (/\ Done("resolveHistoryFileForDate")
     /\ IsDate(d)
     /\ before.files[d].kind # "absent")
    => /\ ret.status = "ok"
       /\ ret.resolved = Resolved(d, d)

\* the requested file exists among an older file, a newer file and an entry
\* that is no snapshot file
C3_ExactAmongOthers ==
  /\ Done("resolveHistoryFileForDate")
  /\ call.date = Dash(2)
  /\ \A d \in 1..3 : before.files[d].kind # "absent"
  /\ before.junk
  /\ ret.resolved.resolvedDate = 2

\* ---- C4
\* the dates of the snapshot files on or before d
OnOrBefore(st, d) == {x \in Days : x <= d /\ st.files[x].kind # "absent"}
Latest(S) == CHOOSE x \in S : \A y \in S : y <= x

\* C4 as stated: when d.json does not exist, resolveHistoryFileForDate(d)
\* returns the latest snapshot date on or before d, and fails with the
\* no-history error naming d and the directory exactly when there is none.
C4_FallbackAsStated ==
  \A d \in Days :
    (/\ Done("resolveHistoryFileForDate")
     /\ IsDate(d)
     /\ before.files[d].kind = "absent")
    => IF OnOrBefore(before, d) = {}
         THEN ret.status = "throw" /\ ret.error = NoHistory(d)
       ELSE /\ ret.status = "ok"
            /\ ret.resolved = Resolved(d, Latest(OnOrBefore(before, d)))

\* C4: when d.json does not exist and the history directory exists,
\* resolveHistoryFileForDate(d) returns the latest snapshot date on or before
\* d, fails with the no-history error naming d and the directory exactly when
\* there is none, and never returns an entry that is not named as a snapshot
\* file; when the directory does not exist it fails with the
\* directory-not-found error, which names the directory only.
C4_FallbackInDirectory ==
  \A d \in Days :
    (/\ Done("resolveHistoryFileForDate")
     /\ IsDate(d)
     /\ before.files[d].kind = "absent")
    => IF ~before.dir
         THEN ret.status = "throw" /\ ret.error = DirNotFound
       ELSE IF OnOrBefore(before, d) = {}
         THEN ret.status = "throw" /\ ret.error = NoHistory(d)
       ELSE /\ ret.status = "ok"
            /\ ret.resolved = Resolved(d, Latest(OnOrBefore(before, d)))
            /\ ret.resolved.resolvedDate \in Days

\* the file of day 3 is asked for; only day 1 and an unrelated entry exist
C4_FellBack ==
  /\ Done("resolveHistoryFileForDate")
  /\ call.date = Dash(3)
  /\ before.junk
  /\ before.files[1].kind # "absent"
  /\ before.files[2].kind = "absent"
  /\ before.files[3].kind = "absent"
  /\ ret.resolved = Resolved(3, 1)

\* ---- C5
\* the end date of the observed call: the argument, or today when omitted
EndOf(c) == IF c.date.kind = "text" THEN c.date.dd ELSE Today

Ascending(series) ==
  \A i \in 1..Len(series) : \A j \in 1..Len(series) :
    i < j => series[i].date < series[j].date

\* C5 as stated: for every non-negative point count N, the list returned by
\* getStockPriceSeries has at most N points, strictly ascending dates, and no
\* date after the end date D.
C5_SeriesWithinCountAsStated ==
  (Done("getStockPriceSeries") /\ ret.status = "ok")
  => /\ Len(ret.series) <= PointsOr(call.points)
     /\ Ascending(ret.series)
     /\ \A i \in 1..Len(ret.series) : ret.series[i].date <= EndOf(call)

\* C5: for every positive point count N (or the default when none is given),
\* the list returned by getStockPriceSeries has at most N points, strictly
\* ascending dates, and no date after the end date D.
C5_SeriesWithinPositiveCount ==
  (/\ Done("getStockPriceSeries")
   /\ ret.status = "ok"
   /\ call.points # {0})
  => /\ Len(ret.series) <= PointsOr(call.points)
     /\ Ascending(ret.series)
     /\ \A i \in 1..Len(ret.series) : ret.series[i].date <= EndOf(call)

\* two points are asked for where three snapshot files precede the end date
C5_Truncated ==
  /\ Done("getStockPriceSeries")
  /\ ret.status = "ok"
  /\ call.points = {2}
  /\ call.date = Dash(3)
  /\ \A d \in 1..3 : before.files[d].kind # "absent"
  /\ Len(ret.series) = 2
  /\ ret.series[1].date = 2

\* ---- C6
\* the answer to the last request the observed call made for a date
FetchesFor(date) == {i \in 1..Len(ret.log) : ret.log[i] = Ev("fetch", date)}
NthFetch(i) == Cardinality({j \in 1..i : ret.log[j].ev = "fetch"})
LastAnswerFor(date) == OutcomeAt(call.plan, NthFetch(Latest(FetchesFor(date))))
CarriesPrice(data) ==
  Coalesce(Coalesce(data.self_price, data.stock_price), Null) # Null

\* C6 as stated: a returned point has a null price only if backfill was
\* disabled or the remote request for that point failed.
C6_NullOnlyOnFailureAsStated ==
  (Done("getStockPriceSeries") /\ ret.status = "ok")
  => \A i \in 1..Len(ret.series) :
       ret.series[i].price = Null
       => \/ ~call.backfill
          \/ /\ FetchesFor(ret.series[i].date) # {}
             /\ ~LastAnswerFor(ret.series[i].date).ok

\* C6: a returned point has a null price only if backfill was disabled or
\* the response fetched for that point carried no price; with backfill
\* enabled and every response carrying a price, every point has a price.
C6_NullOnlyWithoutQuote ==
  (Done("getStockPriceSeries") /\ ret.status = "ok")
  => \A i \in 1..Len(ret.series) :
       ret.series[i].price = Null
       => \/ ~call.backfill
          \/ /\ FetchesFor(ret.series[i].date) # {}
             /\ LastAnswerFor(ret.series[i].date).ok
             /\ ~CarriesPrice(LastAnswerFor(ret.series[i].date).data)

\* with backfill on, one point was filled with a price and the next was
\* answered without one
C6_FilledThenNull ==
  /\ Done("getStockPriceSeries")
  /\ ret.status = "ok"
  /\ call.backfill
  /\ call.plan = <<Answer(Listed), Answer(Bare)>>
  /\ Len(ret.series) = 2
  /\ ret.series[1].price = "p1"
  /\ ret.series[2].price = Null
  /\ PriceOf(find(readHistoryFile(before, ret.series[1].date), call.code)) = Null

\* ---- C7
\* C7: a rejected remote request during a backfill of getStockPriceSeries or
\* getStockPriceAtDate is never propagated to the caller.
C7_FetchFailureNeverPropagated ==
  (Done("getStockPriceSeries") \/ Done("getStockPriceAtDate"))
  => ~(ret.status = "throw" /\ ret.error = FetchErr)

\* ---- C8
\* C8: a snapshot file that is missing or does not parse never makes
\* readHistoryFile, getStockPriceAtDate or getStockPriceSeries raise.
C8_UnreadableFileNeverRaises ==
  (Done("readHistoryFile") \/ Done("getStockPriceAtDate") \/ Done("getStockPriceSeries"))
  => ~(ret.status = "throw" /\ ret.error = SyntaxErr)

\* ---- C9
DateHandlers == {"resolveHistoryFileForDate", "getStockPriceAtDate", "getStockPriceSeries"}

\* an argument of neither accepted form
NeitherForm(date) == \A d \in Days : date \notin {Dash(d), Slash(d)}

\* the observed call fails on its date before it touches anything
FailedFast ==
  /\ ret.status = "throw"
  /\ ret.error = InvalidDate
  /\ ret.log = <<>>
  /\ Store = before

\* the observed call did what the same call does with `date` for its date
SameAsWith(date) ==
  IF call.op = "resolveHistoryFileForDate"
    THEN ret = resolveHistoryFileForDate(before, date) /\ Store = before
  ELSE IF call.op = "getStockPriceAtDate"
    THEN LET e == getStockPriceAtDate(before, call.code, date, call.backfill, call.plan)
         IN /\ ret = [status |-> e.status, error |-> e.error, resolved |-> e.resolved,
                      price |-> e.price, log |-> e.log]
            /\ Store = e.st
  ELSE LET e == getStockPriceSeries(before, call.code, date, call.points,
                                    call.backfill, call.plan)
       IN /\ ret = [status |-> e.status, error |-> e.error, series |-> e.series,
                    log |-> e.log]
          /\ Store = e.st

RatioIn(data, c) ==
  LET I == {i \in 1..Len(data) : data[i].stock_code = c}
  IN IF I = {} THEN {} ELSE data[CHOOSE i \in I : TRUE].ratio_of_price_to_200days_ma

CodesIn(data) == {data[i].stock_code : i \in 1..Len(data)}

\* C11: every entry detectTrendChanges reports has a non-null old_ratio,
\* new_ratio and change, and its stock code occurs in both snapshots.
C11_ReportedHaveBothRatios ==
  Done("detectTrendChanges")
  => \A i \in 1..Len(ret.changes) :
       /\ ret.changes[i].old_ratio # {}
       /\ ret.changes[i].new_ratio # {}
       /\ ret.changes[i].change # {}
       /\ ret.changes[i].stock_code \in CodesIn(call.oldData) \cap CodesIn(call.newData)

\* 7203 had no ratio and now has 0.13, 6758 is new in the later snapshot:
\* nothing is reported
C11_NullAndNewcomerLeftOut ==
  /\ Done("detectTrendChanges")
  /\ call.oldData = <<TrendRec("7203", {})>>
  /\ call.newData = <<TrendRec("7203", {13}), TrendRec("6758", {13})>>
  /\ ret.changes = <<>>

\* ---- C12
\* C12: the stock codes loaded into the '200-day-line plus' filter are
\* exactly the stocks whose ratio in the latest snapshot is > 0.
C12_FilterIsLatestRatioPositive ==
  Done("onMounted")
  => Range(ret.trendChangedStockCodes)
       = {c \in CodesIn(call.newData) :
            \E r \in RatioIn(call.newData, c) : r > 0}

\* ---- C13
\* the rows of the observed company that count, newest first by rank:
\* actual, non-quarterly and, if withSales, with net sales
Counted(withSales) ==
  {r \in Range(call.company.performanceData) :
     r.isActual /\ ~r.isQuarterly /\ (withSales => r.netSales # {})}
Newest(S, k) == CHOOSE r \in S : Cardinality({q \in S : q.period > r.period}) = k - 1
Above(a, b) == a # {} /\ b # {} /\ (CHOOSE x \in a : TRUE) > (CHOOSE y \in b : TRUE)
WithinCeiling ==
  \/ call.limit = {}
  \/ \A m \in call.company.marketCap : \A l \in call.limit : m <= 100 * l

\* conditions (1)-(5) over the counted rows S
HighGrowthOver(S) ==
  /\ Cardinality(S) >= call.years + 1
  /\ WithinCeiling
  /\ \A i \in 1..call.years :
       Above(Newest(S, i).netSales, Newest(S, i + 1).netSales)
  /\ Above(Newest(S, call.years + 1).netSales, {0})
  /\ \A a \in Newest(S, 1).netSales : \A b \in Newest(S, call.years + 1).netSales :
       a * call.ratio[2] >= call.ratio[1] * b

\* C13 as stated: isHighGrowthCompany is true iff conditions (1)-(5) hold of
\* the company's actual, non-quarterly rows.
C13_HighGrowthAsStated ==
  Done("isHighGrowthCompany") => (ret.result <=> HighGrowthOver(Counted(FALSE)))

\* C13: isHighGrowthCompany is true iff conditions (1)-(5) hold of the
\* company's actual, non-quarterly rows that have net sales (a row whose
\* netSales is null is left out before the newest N+1 are taken).
C13_HighGrowthOverRowsWithSales ==
  Done("isHighGrowthCompany") => (ret.result <=> HighGrowthOver(Counted(TRUE)))

\* sales 100, 150, 300 over three years behind a forecast, two years of
\* growth asked for, tripled where doubling is asked: high growth
C13_TwoYearsTripled ==
  /\ Done("isHighGrowthCompany")
  /\ call.company.performanceData =
       <<Row(1, {100}, TRUE, FALSE), Row(2, {150}, TRUE, FALSE),
         Row(3, {300}, TRUE, FALSE), Row(4, {300}, FALSE, FALSE)>>
  /\ call.years = 2
  /\ call.ratio = <<2, 1>>
  /\ call.limit = {10}
  /\ ret.result

\* ---- C14
\* C14: with a ceiling set, a company whose market cap / 100 exceeds the
\* ceiling is never classified high growth, whatever its revenue history;
\* one whose market cap / 100 is within the ceiling is classified as it
\* would be with no ceiling.
C14_CeilingExcludesOnlyAbove ==
  (Done("isHighGrowthCompany") /\ call.limit # {})
  => \A m \in call.company.marketCap : \A l \in call.limit :
       /\ m > 100 * l => ~ret.result
       /\ m <= 100 * l
            => ret.result = isHighGrowthCompany(call.company, call.years, call.ratio, {})

\* a market cap of exactly the ceiling (1000 million yen, ceiling 10
\* hundred-million) does not keep a growing company out
C14_AtCeilingStillHighGrowth ==
  /\ Done("isHighGrowthCompany")
  /\ call.limit = {10}
  /\ call.company.marketCap = {1000}
  /\ ret.result

\* ---- C15
HasCode(file, c) == \E i \in 1..Len(file.recs) : file.recs[i].stock_code = c

\* C15: once the file of a date holds a record for stock code c, it still
\* holds one after every later write of the pipeline to that file (a write
\* leaves a JSON array; damage from outside is no write of the pipeline).
C15_RecordsOnlyMerged ==
  [][\A d \in Days : \A c \in Codes :
       (HasCode(files[d], c) /\ files'[d].kind = "array") => HasCode(files'[d], c)]_vars

\* ---- C16
ValidExisting == {c \in Range(call.existing.companies) : IsValidCompany(c)}

\* C16: without --allow-duplicates, no request is made for an id that is the
\* stockCode or companyId of a valid entry of the existing file, and the file
\* written holds every valid existing entry unchanged and, besides those,
\* only companies fetched in this run.
C16_KnownSkippedAndKept ==
  (Done("fetchRangeData") /\ ~call.allowDuplicates)
  => /\ \A id \in Range(call.companyIds) :
          (\E c \in ValidExisting : id \in {c.stockCode, c.companyId})
          => REv("fetch", id) \notin Range(ret.log)
     /\ ret.written
          => /\ ValidExisting \subseteq Range(ret.file.companies)
             /\ \A c \in Range(ret.file.companies) \ ValidExisting :
                  /\ c.updatedAt = "new"
                  /\ REv("fetch", c.companyId) \in Range(ret.log)

\* 7203 is on file, 7203 and 6758 are asked for: only 6758 is fetched, and
\* the file written holds the old 7203 next to the new 6758
C16_AddedNextToKnown ==
  /\ Done("fetchRangeData")
  /\ ~call.allowDuplicates
  /\ call.existing = RangeData(<<OldCompany("7203", "7203")>>)
  /\ call.companyIds = <<"7203", "6758">>
  /\ ret.written
  /\ Len(ret.file.companies) = 2
  /\ ret.file.companies[2] = OldCompany("7203", "7203")
  /\ ret.log = <<REv("fetch", "6758"), REv("write", "")>>
\* ---- C17
\* the dated files that runs on earlier dates left
EarlierRuns == {d \in Days : d < Today /\ call.trendFiles[d].kind # "absent"}

DirectionOf(data, stockCode, k) ==
  LET s == findStock(data, stockCode)
  IN IF s = <<>> THEN {} ELSE IF s.trends = <<>> THEN {} ELSE {s.trends[k]}

\* the (stock, period) pairs whose direction differs between the two runs
Differing(current, previous) ==
  {<<current[i].stockCode, trendKeys[k]>> : i \in 1..Len(current), k \in 1..Len(trendKeys)}
    \cap {p \in Codes \X Range(trendKeys) :
            \E k \in 1..Len(trendKeys) :
              /\ trendKeys[k] = p[2]
              /\ DirectionOf(current, p[1], k) # {}
              /\ DirectionOf(previous, p[1], k) # {}
              /\ DirectionOf(current, p[1], k) # DirectionOf(previous, p[1], k)}

\* C17: with a file of a run on an earlier date, the run compares with the
\* newest such file and reports every (stock, period) whose direction
\* differs from it; on a first run it reports that there is nothing to
\* compare with.
C17_ComparedWithPreviousRun ==
  Done("scraperMain")
  => IF EarlierRuns = {} THEN ret.report = "noComparisonData"
     ELSE LET p == CHOOSE d \in EarlierRuns : \A e \in EarlierRuns : e <= d
          IN call.trendFiles[p].kind = "array"
             => /\ ret.report = "compared"
                /\ {<<ret.changes[i].stockCode, ret.changes[i].period>> :
                      i \in 1..Len(ret.changes)}
                     = Differing(call.results, call.trendFiles[p].data)

\* ---- C18
\* the run resolves a date: a code is given and --points is not
ResolvesDate == call.argv.code # {} /\ call.argv.points = {}

\* no snapshot file at or before the day the --date argument stands for
NothingOnOrBefore ==
  LET n == normalizeDateInput(call.argv.date)
  IN n.ok /\ \A d \in Days : d <= n.day => before.files[d].kind = "absent"

\* the text given to --points is not a finite number > 0
BadPoints ==
  /\ call.argv.points # {}
  /\ \A t \in call.argv.points : ~isFinite(Number(t)) \/ Number(t).n <= 0

\* C18: the driver exits non-zero when the resolution fails with nothing
\* at or before the requested date and backfill disabled, and it exits
\* non-zero without calling getStockPriceSeries when the --points value
\* is not a finite number > 0.
C18_DriverExitCodes ==
  Done("main")
  => /\ (ResolvesDate /\ call.argv.noBackfill /\ NothingOnOrBefore)
          => ret.exitCode # 0
     /\ (call.argv.code # {} /\ BadPoints)
          => ret.exitCode # 0 /\ "getStockPriceSeries" \notin Range(ret.called)

\* ---- C19
\* the two calls ran as read, read, write, write
Interleaved ==
  /\ ret.trace[1].step = "read" /\ ret.trace[2].step = "read"
  /\ ret.trace[3].step = "write" /\ ret.trace[4].step = "write"

\* one call ran to its end before the other started
OneAfterTheOther == ret.trace[1].task = ret.trace[2].task

\* the file of day d holds r: its record of r's code has r's fields
Holds(st, d, r) ==
  LET found == find(readHistoryFile(st, d), r.stock_code)
  IN /\ found # <<>>
     /\ \A k \in DOMAIN found \cup DOMAIN r : Get(found, k) = Get(r, k)

\* C19: two upserts for different codes on one file that run as read, read,
\* write, write leave the file as the last writer alone would: it holds the
\* last writer's record, and for the first writer's code it holds what it
\* held before the two calls (nothing, when it held nothing); two upserts
\* that run one after the other leave both records in the file.
C19_LostUpdateWhenInterleaved ==
  Done("upsertPair")
  => LET d == call.date.dd
         first == call.records[ret.trace[3].task]
         last == call.records[ret.trace[4].task]
     IN /\ Interleaved
           => /\ Holds(Store, d, last)
              /\ find(readHistoryFile(Store, d), first.stock_code)
                   = find(readHistoryFile(before, d), first.stock_code)
        /\ OneAfterTheOther
           => \A t \in Tasks : Holds(Store, d, call.records[t])

\* read, read, write, write on a file without the first writer's code: the
\* first writer's record is not in the final file
C19_FirstWriterLost ==
  /\ Done("upsertPair")
  /\ Interleaved
  /\ ret.trace[3].task # ret.trace[4].task
  /\ find(readHistoryFile(before, call.date.dd),
          call.records[ret.trace[3].task].stock_code) = <<>>
  /\ find(readHistoryFile(Store, call.date.dd),
          call.records[ret.trace[3].task].stock_code) = <<>>
  /\ Holds(Store, call.date.dd, call.records[ret.trace[4].task])

\* ---- C20
MultiItemOps == {"getStockPriceSeries", "fetchRangeData", "dailyMain"}

\* a delay lies between any two requests of the log
DelayBetweenRequests(log) ==
  \A i \in 1..Len(log) : \A j \in (i + 1)..Len(log) :
    (log[i].ev = "fetch" /\ log[j].ev = "fetch")
      => \E k \in (i + 1)..(j - 1) : log[k].ev = "delay"

\* C20: in a series call, a range fetch and a daily job the requests are
\* made one after the other, and a delay lies between any two consecutive
\* requests.
C20_DelayBetweenRequests ==
  (call.op \in MultiItemOps /\ ret.status # "none") => DelayBetweenRequests(ret.log)

\* ---- C21
\* every request of the observed call is answered
AllAnswered == \A i \in 1..Len(call.plan) : call.plan[i].ok

\* C21: with backfill enabled, a valid date and an answering API,
\* getStockPriceAtDate and getStockPriceSeries succeed on a store whose
\* history directory does not exist: the directory and the file of the
\* requested / end date are created and the call returns a result.
C21_BackfillCreatesDirectory ==
  (/\ call.op \in {"getStockPriceAtDate", "getStockPriceSeries"}
   /\ ret.status # "none"
   /\ call.backfill
   /\ AllAnswered
   /\ normalizeDateInput(call.date).ok
   /\ ~before.dir)
  => /\ ret.status = "ok"
     /\ dirExists
     /\ files[normalizeDateInput(call.date).day].kind = "array"

\* the same for getStockPriceAtDate alone
C21_AtDateCreatesDirectory ==
  call.op = "getStockPriceAtDate" => C21_BackfillCreatesDirectory

\* ---- C22
\* C22: one getStockPriceSeries call makes at most one remote request per
\* snapshot date, the end date included when its file has just been
\* synthesized.
C22_OneFetchPerDate ==
  Done("getStockPriceSeries")
  => \A d \in Days : Cardinality(FetchesFor(d)) <= 1

\* ---- C23
\* the records of a list whose code is not `code`, in their order
Others(recs, code) == SelectSeq(recs, LAMBDA x : x.stock_code # code)

\* C23: upsertHistoryRecord(file, r) leaves the records of the file with
\* another stock code as they were and in their order, puts r at the end
\* when the file held no record of r's code, and changes no other file.
C23_UpsertFrame ==
  (Done("upsertHistoryRecord") /\ ret.status = "ok")
  => LET d == call.date.dd
         r == UpsertArg(call)
         old == readHistoryFile(before, d)
         new == readHistoryFile(Store, d)
     IN /\ Others(new, r.stock_code) = Others(old, r.stock_code)
        /\ findIndex(old, r.stock_code) = 0
             => /\ Len(new) = Len(old) + 1
                /\ SubSeq(new, 1, Len(old)) = old
                /\ new[Len(new)] = Stringify(r)
        /\ \A e \in Days \ {d} : files[e] = before.files[e]
        /\ junk = before.junk

\* a record of a third code is put behind the two records of the file
C23_AppendedBehindTwo ==
  /\ Done("upsertHistoryRecord")
  /\ ret.status = "ok"
  /\ Len(readHistoryFile(before, call.date.dd)) = 2
  /\ findIndex(readHistoryFile(before, call.date.dd), call.code) = 0
  /\ Len(readHistoryFile(Store, call.date.dd)) = 3
  /\ readHistoryFile(Store, call.date.dd)[3].stock_code = call.code

\* ---- C24
\* the observed call made no request and wrote nothing
NoFetchNoWrite ==
  /\ \A i \in 1..Len(ret.log) : ret.log[i].ev \notin {"fetch", "write", "mkdir"}
  /\ Store = before

\* the file of the requested date held a price of the code before the call
PricedBefore ==
  /\ normalizeDateInput(call.date).ok
  /\ LET rec == find(readHistoryFile(before, normalizeDateInput(call.date).day), call.code)
     IN rec # <<>> /\ Get(rec, "current_price") \notin {Null, Undef}

\* C24: with backfill disabled getStockPriceSeries and getStockPriceAtDate
\* make no remote request and leave the directory and every file as they
\* were; with backfill enabled getStockPriceAtDate does the same when the
\* file of the requested date already holds a price for the stock.
C24_ReadOnlyWithoutBackfill ==
  /\ (call.op \in {"getStockPriceSeries", "getStockPriceAtDate"}
       /\ ret.status # "none" /\ ~call.backfill)
      => NoFetchNoWrite
  /\ (Done("getStockPriceAtDate") /\ call.backfill /\ PricedBefore)
      => NoFetchNoWrite

\* a priced record is answered from the file although backfill is enabled
C24_AnsweredFromFile ==
  /\ Done("getStockPriceAtDate")
  /\ call.backfill
  /\ PricedBefore
  /\ ret.status = "ok"
  /\ ret.price = "p1"
  /\ ret.log = <<Ev("read", normalizeDateInput(call.date).day)>>

\* ---- C25
RequestedDay == normalizeDateInput(call.date).day

\* C25: a backfilling getStockPriceAtDate that returns resolves to the
\* requested date; when it returns a price p the file of that date holds a
\* record of the code with fetched_at the date and current_price p, and the
\* same call made again returns p for the same date without a request and
\* without a write.
C25_BackfillIdempotent ==
  (call.op = "getStockPriceAtDate" /\ call.backfill)
  => /\ ret.status = "ok"
          => /\ ret.resolved = Resolved(RequestedDay, RequestedDay)
             /\ ret.price # Null
                  => LET rec == find(readHistoryFile(Store, RequestedDay), call.code)
                     IN /\ rec # <<>>
                        /\ rec.fetched_at = DateText(RequestedDay)
                        /\ rec.current_price = ret.price
     /\ ret.status = "twice"
          => /\ ret.second.status = "ok"
             /\ ret.second.resolved = Resolved(RequestedDay, RequestedDay)
             /\ ret.first.price # Null
                  => /\ ret.second.price = ret.first.price
                     /\ \A i \in 1..Len(ret.second.log) :
                          ret.second.log[i].ev \notin {"fetch", "write", "mkdir"}
                     /\ Store = ret.mid

\* the first call fetched and wrote for a day other than the run's, the
\* second answered from the file
C25_BackfilledThenStored ==
  /\ call.op = "getStockPriceAtDate"
  /\ call.backfill
  /\ ret.status = "twice"
  /\ RequestedDay # Today
  /\ \E i \in 1..Len(ret.first.log) : ret.first.log[i].ev = "write"
  /\ ret.first.price = "p1"
  /\ ret.second.price = "p1"
  /\ ret.second.log = <<Ev("read", RequestedDay)>>

\* ---- C26
\* a lookup without backfill, for a valid date, on files that all parse
PlainLookup ==
  /\ Done("getStockPriceAtDate")
  /\ ~call.backfill
  /\ normalizeDateInput(call.date).ok
  /\ \A d \in Days : before.files[d].kind # "bad"

\* the lookup returns what the resolver resolves to and the price stored
\* there, and stays on the requested date when its file exists
AgreesWithResolver ==
  LET rs == resolveHistoryFileForDate(before, call.date)
  IN /\ (ret.status = "ok") <=> (rs.status = "ok")
     /\ ret.status = "ok"
          => /\ ret.resolved = rs.resolved
             /\ ret.price
                  = PriceOf(find(readHistoryFile(before, rs.resolved.resolvedDate),
                                 call.code))
     /\ before.files[RequestedDay].kind = "array"
          => ret.status = "ok" /\ ret.resolved.resolvedDate = RequestedDay

\* C26 as stated: without backfill and on well-formed files the lookup
\* agrees with the resolver, and it fails with the no-history error
\* exactly when no snapshot on or before the requested date exists.
C26_AgreesAsStated ==
  PlainLookup
  => /\ AgreesWithResolver
     /\ (ret.status = "throw" /\ ret.error = NoHistory(RequestedDay))
          <=> OnOrBefore(before, RequestedDay) = {}

\* C26: without backfill and on well-formed files the lookup agrees with
\* the resolver; when the history directory exists it fails with the
\* no-history error exactly when no snapshot on or before the requested
\* date exists, and when the directory does not exist it fails with the
\* directory-not-found error.
C26_AgreesInDirectory ==
  PlainLookup
  => /\ AgreesWithResolver
     /\ IF ~before.dir THEN ret.status = "throw" /\ ret.error = DirNotFound
        ELSE (ret.status = "throw" /\ ret.error = NoHistory(RequestedDay))
               <=> OnOrBefore(before, RequestedDay) = {}

\* the file of the requested day has no price of the code, an earlier one
\* has: the lookup stays on the requested day and returns null
C26_NoFallbackFromUnpriced ==
  /\ PlainLookup
  /\ call.code = "7203"
  /\ call.date = Dash(2)
  /\ PriceOf(find(readHistoryFile(before, 2), "7203")) = Null
  /\ before.files[2].kind = "array"
  /\ PriceOf(find(readHistoryFile(before, 1), "7203")) = "p1"
  /\ ret.status = "ok"
  /\ ret.resolved = Resolved(2, 2)
  /\ ret.price = Null

\* ---- C27
\* the snapshots on or before day d that the detection can see
ServedOnOrBefore(d) ==
  {x \in Days : x <= d /\ x <= Today /\ call.hist[x].kind # "absent"}

\* C27: the entries reported by detectTrendChanges(daysAgo) come from two
\* different files, the latest snapshot and the latest snapshot on or before
\* today - daysAgo, the second strictly earlier than the first; without a
\* snapshot on or before today - daysAgo, with the two coinciding or with a
\* file that does not load the result is empty, and nothing is thrown.
C27_ComparesTwoFiles ==
  Done("detectTrendChangesFrom")
  => LET news == ServedOnOrBefore(Today)
         olds == ServedOnOrBefore(Today - call.daysAgo)
     IN /\ ret.status = "ok"
        /\ ret.changes # <<>>
             => /\ olds # {}
                /\ Latest(olds) < Latest(news)
                /\ ret.oldFile = {Latest(olds)}
                /\ ret.newFile = {Latest(news)}
        /\ (olds = {} \/ Latest(olds) = Latest(news))
             => ret.changes = <<>>
        /\ (olds # {} /\ "bad" \in {call.hist[Latest(olds)].kind,
                                     call.hist[Latest(news)].kind})
             => ret.changes = <<>>

\* the same on files that hold one record per stock code
C27_OnDistinctCodes ==
  (\A d \in Days : DistinctCodes(call.hist[d].recs)) => C27_ComparesTwoFiles

C29_FiltersExclusive ==
  call.op = "dashboard"
  => LET shown == displayCompanies(call.companies, ret)
     IN /\ ~(ret.showHighGrowthOnly /\ ret.showTrendChangeOnly)
        /\ Range(shown) \subseteq Range(successfulCompanies(call.companies, ret))
        /\ \A i \in 1..Len(shown) :
             /\ NoError(shown[i])
             /\ shown[i] \in Range(call.companies)
             /\ ret.favoriteStockCodes # {}
                  => shown[i].stockCode \in ret.favoriteStockCodes

\* the trend filter is switched on while the growth filter is on, with a
\* favourite that is displayed and a loaded company that is not
C29_SwitchedOver ==
  /\ call.op = "dashboard"
  /\ ret.last = "toggleTrendChangeFilter"
  /\ ret.prevHigh
  /\ ret.showTrendChangeOnly
  /\ ~ret.showHighGrowthOnly
  /\ ret.favoriteStockCodes = {"7203"}
  /\ Len(displayCompanies(call.companies, ret)) = 1
  /\ Len(call.companies) = 3

\* ---- C30
DistinctStockCodes(cs) ==
  \A i, j \in 1..Len(cs) : cs[i].stockCode = cs[j].stockCode => i = j

\* the ids the loop goes over: all of them with --allow-duplicates,
\* otherwise those that are no stockCode or companyId of a valid entry
FilteredIds ==
  IF call.allowDuplicates \/ call.existing.kind # "data" THEN call.companyIds
  ELSE SelectSeq(call.companyIds,
                 LAMBDA id : \A c \in ValidExisting : id \notin {c.stockCode, c.companyId})

FetchesOf(log) == SelectSeq(log, LAMBDA e : e.ev = "fetch")

AttemptsInOrder ==
  FetchesOf(ret.log) = [i \in 1..Len(FilteredIds) |-> REv("fetch", FilteredIds[i])]

WrittenWellFormed ==
  /\ DistinctStockCodes(ret.file.companies)
  /\ \A c \in Range(ret.file.companies) : IsValidCompany(c)
  /\ ret.totalCompanies = Len(ret.file.companies)

\* C30: the existing file having pairwise distinct stockCodes, the file
\* written in either mode holds no two entries with one stockCode and no
\* placeholder entry, and its totalCompanies is the number of its entries;
\* every id of the filtered list is requested exactly once, in order,
\* whatever the requests before it gave.
C30_WrittenFileInvariants ==
  (Done("fetchRangeData") /\ DistinctStockCodes(call.existing.companies))
  => /\ ret.written => (WrittenWellFormed /\ AttemptsInOrder)
     /\ ~ret.written => FetchesOf(ret.log) = <<>>

\* the same with every body naming the id asked for, or no stock_code
EchoedCodes ==
  \A id \in Range(call.companyIds) : call.raws[id].stock_code \in {Undef, id}

C30_WhenCodesEchoed ==
  (Done("fetchRangeData") /\ EchoedCodes /\ DistinctStockCodes(call.existing.companies))
  => /\ ret.written => (WrittenWellFormed /\ AttemptsInOrder)
     /\ ~ret.written => FetchesOf(ret.log) = <<>>

\* the part that needs no assumption on the bodies
C30_NoPlaceholderCountAndOrder ==
  (Done("fetchRangeData") /\ ret.written)
  => /\ \A c \in Range(ret.file.companies) : IsValidCompany(c)
     /\ ret.totalCompanies = Len(ret.file.companies)
     /\ AttemptsInOrder
====
